---- MODULE Spec2Model ----
(***************************************************************************)
(* Model of the Text Extractor extension: the selection overlay content    *)
(* script (selection state machine), the text extractor content script     *)
(* (extraction aggregator and geometry) and the OCR processor (engine      *)
(* adapter).                                                               *)
(*                                                                         *)
(* Texts are sequences of one-character strings, so that join, trim and    *)
(* the newline-collapsing replacements are computed as the code computes   *)
(* them.                                                                   *)
(***************************************************************************)
EXTENDS Integers, Sequences, FiniteSets, TLC

(***************************************************************************)
(* Bounds of the model.                                                    *)
(***************************************************************************)
\* most <img> elements on a page
MaxImgs == 1
\* most extraction calls started by the selection state machine in one run
MaxCommits == 2
\* most activation messages in one run
MaxActivations == 2

\* the pointer positions tried, on either axis
Coords == {0, 4, 9, 10}
\* where a mousedown lands: one point, the handlers use only the distances
\* from it (4, 0, 5 and 6 pixels with the positions above)
Anchors == {4}

NULL == "null"

NL == "\n"
CR == "\r"
TAB == "\t"
SP == " "

(***************************************************************************)
(* String helpers: String.prototype.trim, Array.prototype.join and the     *)
(* global regular-expression replacements used by the extractor.           *)
(***************************************************************************)
IsWhitespace(c) == c \in {NL, CR, TAB, SP}

SeqMin(S) == CHOOSE x \in S : \A y \in S : x <= y
SeqMax(S) == CHOOSE x \in S : \A y \in S : x >= y

\* s.trim()
Trim(s) ==
  LET keep == {j \in 1..Len(s) : ~IsWhitespace(s[j])}
  IN IF keep = {} THEN <<>> ELSE SubSeq(s, SeqMin(keep), SeqMax(keep))

\* n copies of character c
RECURSIVE Repeat(_, _)
Repeat(c, n) == IF n <= 0 THEN <<>> ELSE <<c>> \o Repeat(c, n - 1)

\* parts.join(sep)
RECURSIVE Join(_, _)
Join(parts, sep) ==
  IF parts = <<>> THEN <<>>
  ELSE IF Len(parts) = 1 THEN parts[1]
  ELSE parts[1] \o sep \o Join(Tail(parts), sep)

\* length of the run of character c that starts s
RECURSIVE RunLength(_, _)
RunLength(s, c) ==
  IF s = <<>> \/ s[1] # c THEN 0 ELSE 1 + RunLength(Tail(s), c)

\* s.replace(/\n{min,}/g, '\n' * repl): every maximal run of at least min
\* newlines becomes repl newlines
RECURSIVE ReplaceNewlineRuns(_, _, _)
ReplaceNewlineRuns(s, min, repl) ==
  IF s = <<>> THEN <<>>
  ELSE IF s[1] = NL
    THEN LET r == RunLength(s, NL)
         IN Repeat(NL, IF r >= min THEN repl ELSE r)
              \o ReplaceNewlineRuns(SubSeq(s, r + 1, Len(s)), min, repl)
    ELSE <<s[1]>> \o ReplaceNewlineRuns(Tail(s), min, repl)

\* s.replace(/c/g, d) for single characters
ReplaceChar(s, c, d) == [j \in 1..Len(s) |-> IF s[j] = c THEN d ELSE s[j]]

\* s.replace(/\r\n/g, '\n')
RECURSIVE ReplaceCRLF(_)
ReplaceCRLF(s) ==
  IF s = <<>> THEN <<>>
  ELSE IF Len(s) >= 2 /\ s[1] = CR /\ s[2] = NL
    THEN <<NL>> \o ReplaceCRLF(SubSeq(s, 3, Len(s)))
    ELSE <<s[1]>> \o ReplaceCRLF(Tail(s))

\* hay.includes(needle)
Includes(hay, needle) ==
  \E j \in 0..(Len(hay) - Len(needle)) :
    SubSeq(hay, j + 1, j + Len(needle)) = needle

\* the longest run of newlines in s
LongestNewlineRun(s) ==
  LET runs == {RunLength(SubSeq(s, j, Len(s)), NL) : j \in 1..Len(s)}
  IN IF runs = {} THEN 0 ELSE SeqMax(runs)

(***************************************************************************)
(* The page.  A rectangle is [left, top, width, height] in viewport        *)
(* coordinates (what getBoundingClientRect returns).  A page holds its     *)
(* <img> elements in document order, its other elements in hit-test order  *)
(* (topmost first) and its text nodes in tree order.                       *)
(***************************************************************************)
Right(r) == r.left + r.width
Bottom(r) == r.top + r.height

\* the rectangle the extractor builds from selectionData
SelectionRect(sd) ==
  [left |-> sd.viewportX, top |-> sd.viewportY,
   width |-> sd.viewportWidth, height |-> sd.viewportHeight]

\* the overlap test of detectImagesInSelection and extractSelectableText
Overlaps(r, s) ==
  ~(Right(r) < s.left \/ r.left > Right(s) \/ Bottom(r) < s.top \/ r.top > Bottom(s))

Max2(a, b) == IF a >= b THEN a ELSE b
Min2(a, b) == IF a <= b THEN a ELSE b

Intersection(r, s) ==
  [x |-> Max2(s.left, r.left),
   y |-> Max2(s.top, r.top),
   width |-> Min2(Right(s), Right(r)) - Max2(s.left, r.left),
   height |-> Min2(Bottom(s), Bottom(r)) - Max2(s.top, r.top)]

\* document.elementsFromPoint at the centre of the selection: the elements
\* whose box holds the point (coordinates doubled, the centre is x + w/2)
ElementsFromPoint(d, sd) ==
  LET cx2 == 2 * sd.viewportX + sd.viewportWidth
      cy2 == 2 * sd.viewportY + sd.viewportHeight
      Holds(e) == /\ 2 * e.rect.left <= cx2 /\ cx2 < 2 * Right(e.rect)
                  /\ 2 * e.rect.top <= cy2 /\ cy2 < 2 * Bottom(e.rect)
  IN SelectSeq(d.els, Holds)

\* the <img> elements kept by detectImagesInSelection
ImgCandidates(d, sd) ==
  LET s == SelectionRect(sd)
      Info(j) == [kind |-> "img", src |-> <<"img", j>>,
                  intersection |-> Intersection(d.imgs[j].rect, s)]
      Keep(info) ==
        LET r == d.imgs[info.src[2]].rect
        IN /\ Overlaps(r, s)
           /\ info.intersection.width > 10
           /\ info.intersection.height > 10
  IN SelectSeq([j \in 1..Len(d.imgs) |-> Info(j)], Keep)

\* the elements with a url(...) background image under the centre point
BackgroundCandidates(d, sd) ==
  LET s == SelectionRect(sd)
      hit == SelectSeq(ElementsFromPoint(d, sd),
                       LAMBDA e : e.bg /\ Overlaps(e.rect, s))
  IN [j \in 1..Len(hit) |->
        [kind |-> "background-image", src |-> <<"bg", hit[j].id>>,
         intersection |-> Intersection(hit[j].rect, s)]]

DetectImagesInSelection(d, sd) == ImgCandidates(d, sd) \o BackgroundCandidates(d, sd)

\* a fallback that pushes every non-empty text, already present or not
RECURSIVE AppendAll(_, _)
AppendAll(pieces, more) ==
  IF more = <<>> THEN pieces
  ELSE LET t == Trim(more[1])
       IN AppendAll(IF t # <<>> THEN Append(pieces, t) ELSE pieces, Tail(more))

\* the pieces pushed by the tree walker, then by the centre-point fallback
RECURSIVE AppendNew(_, _)
AppendNew(pieces, more) ==
  IF more = <<>> THEN pieces
  ELSE LET t == Trim(more[1])
       IN AppendNew(IF t # <<>> /\ ~(\E j \in 1..Len(pieces) : pieces[j] = t)
                      THEN Append(pieces, t) ELSE pieces,
                    Tail(more))

TextElements(d, sd) ==
  LET s == SelectionRect(sd)
      Accept(n) == n.rect.width > 0 /\ n.rect.height > 0 /\ Overlaps(n.rect, s)
      accepted == SelectSeq(d.textNodes, Accept)
      trimmed == [j \in 1..Len(accepted) |-> Trim(accepted[j].text)]
      walked == SelectSeq(trimmed, LAMBDA t : t # <<>>)
      hit == SelectSeq(ElementsFromPoint(d, sd), LAMBDA e : Overlaps(e.rect, s))
  IN AppendNew(walked, [j \in 1..Len(hit) |-> hit[j].text])

ExtractSelectableText(d, sd) ==
  LET joined == Join(TextElements(d, sd), <<NL>>)
      a == ReplaceNewlineRuns(joined, 3, 2)
      b == ReplaceChar(a, TAB, SP)
      c == ReplaceCRLF(b)
      e == ReplaceChar(c, CR, NL)
  IN Trim(e)

(***************************************************************************)
(* State.                                                                  *)
(***************************************************************************)
VARIABLES
  \* the page and the committed rectangle
  dom, selectionData,
  \* the OCR processor: window.OCRProcessor defined, Tesseract defined,
  \* this.isInitialized, this.tesseract, this.currentLanguage
  ocrDefined, tesseractLoaded, isInitialized, tesseract, currentLanguage,
  \* the ocrLanguage item of chrome.storage.local (null: none stored)
  ocrLanguage,
  \* history: an earlier call on the same page and rectangle (its result, its
  \* sub-steps, and the OCR processor as it found it)
  firstCall,
  \* extractTextFromSelection: where the call is suspended, its locals, and
  \* how its promise settled
  pc, results, detectedImages, ocrCandidates, imageDataArray, k, i, ocrResults, outcome,
  \* history: the asynchronous sub-steps the call ran, in order
  trace,
  \* the selection overlay script: its globals, the cursor of the page, whether
  \* its document listeners are installed, whether window.TextExtractor exists
  isSelectionModeActive, isSelecting, startX, startY, selectionOverlay,
  selectionBox, loadingIndicator, cursor, listeners, textExtractorAvailable,
  \* the handleSelectionComplete calls awaiting their extraction, and the
  \* messages sent to the service worker
  inFlight, sent,
  \* history: the rectangle read by the last pointer-up, the number of calls
  \* of extractTextFromSelection, and the number of activation messages
  lastRect, extractCalls, activations,
  \* history: the last message or event the script handled
  lastEvent,
  \* the OCR processor in small steps: the extractText calls made (each with
  \* its engine pass and its 30 s timer), the initialize calls made, the
  \* pending 100 ms pre-warm timers, the workers created by preWarmWorker,
  \* this.workerCache, the pending 5 min eviction timers per language, and the
  \* setLanguage call awaiting its storage write
  recogs, initCalls, preWarmTimers, workers, workerCache, evictionTimers, pendingWrite,
  \* history: the language of the last setLanguage call that returned
  lastSet,
  \* the service worker: its isSelectionModeActive flag, the badge text of the
  \* tab, the icon-click handlers started (each with the await it is suspended
  \* at), whether its activateSelectionMode is the one that waits and retries,
  \* whether the content script of the tab is in selection mode, and the
  \* messages of the content script on their way to the worker
  swIsSelectionModeActive, badgeText, clickCalls, retriesActivation, contentActive, toWorker,
  \* history: the messages the worker's listener handled
  received

pageVars == <<dom, selectionData>>
adapterVars == <<ocrDefined, tesseractLoaded, isInitialized, tesseract, currentLanguage>>
envVars == <<ocrLanguage, firstCall>>
extractVars == <<pc, results, detectedImages, ocrCandidates, imageDataArray, k, i, ocrResults, outcome, trace>>
selVars == <<isSelectionModeActive, isSelecting, startX, startY, selectionOverlay,
             selectionBox, loadingIndicator, cursor, listeners, textExtractorAvailable,
             inFlight, sent, lastRect, extractCalls, activations, lastEvent>>
processorVars == <<recogs, initCalls, preWarmTimers, workers, workerCache, evictionTimers,
                   pendingWrite, lastSet>>
swVars == <<swIsSelectionModeActive, badgeText, clickCalls, retriesActivation, contentActive,
            toWorker, received>>
vars == <<pageVars, envVars, adapterVars, extractVars, selVars, processorVars, swVars>>

(***************************************************************************)
(* OCRProcessor.extractText, as seen by its caller.  raw is what happens   *)
(* inside: the source fails validation, the engine reports an error, the   *)
(* engine is still running when the 30 s timer fires, or the engine        *)
(* returns data.                                                           *)
(***************************************************************************)
TimeoutMessage == "OCR processing timed out. The image may be too large or complex."
LoadMessage == "Failed to load image. The image may be corrupted or inaccessible."
RecognitionMessage == "Tesseract recognition error"

LanguageMessage == "Invalid language code. Please select a valid language."
DimensionsMessage == "Invalid image: image has zero dimensions or failed to load."
\* stands for a thrown message that the catch block passes on as it is
AsThrown == "(the message as thrown)"

\* the faults of an image source that extractText finds before it starts
\* the engine
SourceFaults ==
  { "null-source", "url-load-timeout", "url-load-error", "url-zero-size",
    "element-not-loaded", "canvas-zero-size", "unsupported-type" }

\* the message of the error thrown for a fault (the inner try prefixes
\* 'Image preprocessing failed: '), and of the 30 s timer, cut into pieces
\* at the words the catch block looks for
Thrown(fault) ==
  CASE fault = "null-source" ->
         <<"Invalid image source: image source is null or undefined">>
    [] fault = "url-load-timeout" ->
         <<"Image preprocessing failed: Image ", "load", "ing ", "timeout">>
    [] fault = "url-load-error" ->
         <<"Image preprocessing failed: Failed to ", "load", " image: Unknown error">>
    [] fault = "url-zero-size" ->
         <<"Image preprocessing failed: Invalid image: image failed to ", "load",
           " or has ", "zero", " ", "dimensions">>
    [] fault = "element-not-loaded" ->
         <<"Image preprocessing failed: Invalid image element: image not ", "load",
           "ed or has ", "zero", " ", "dimensions">>
    [] fault = "canvas-zero-size" ->
         <<"Image preprocessing failed: Invalid canvas: canvas has ", "zero", " ",
           "dimensions">>
    [] fault = "unsupported-type" ->
         <<"Image preprocessing failed: Unsupported image source type: object">>
    [] fault = "race-timeout" ->
         <<"OCR processing ", "timeout", ": exceeded 30000ms">>

\* the catch block of extractText: the message it throws for a thrown one
RewriteMessage(thrown) ==
  IF Includes(thrown, <<"timeout">>) THEN TimeoutMessage
  ELSE IF Includes(thrown, <<"load">>) THEN LoadMessage
  ELSE IF Includes(thrown, <<"language">>) THEN LanguageMessage
  ELSE IF Includes(thrown, <<"dimensions">>) \/ Includes(thrown, <<"zero">>)
       THEN DimensionsMessage
  ELSE AsThrown

\* an extractText that throws when the engine found no text
ExtractTextEmptyFails(raw) ==
  CASE raw.kind = "invalid" -> [ok |-> FALSE, message |-> RewriteMessage(Thrown(raw.fault))]
    [] raw.kind = "hang" -> [ok |-> FALSE, message |-> TimeoutMessage]
    [] raw.kind = "engine_error" -> [ok |-> FALSE, message |-> RecognitionMessage]
    [] OTHER ->
         IF Trim(raw.text) = <<>>
         THEN [ok |-> FALSE, message |-> "No text found in image"]
         ELSE [ok |-> TRUE, text |-> raw.text, confidence |-> raw.confidence,
               warning |-> ""]

ExtractText(raw) ==
  CASE raw.kind = "invalid" -> [ok |-> FALSE, message |-> RewriteMessage(Thrown(raw.fault))]
    [] raw.kind = "hang" ->
         [ok |-> FALSE, message |-> RewriteMessage(Thrown("race-timeout"))]
    [] raw.kind = "engine_error" -> [ok |-> FALSE, message |-> RecognitionMessage]
    [] OTHER ->
         IF Trim(raw.text) = <<>>
         THEN [ok |-> TRUE, text |-> <<>>, confidence |-> 0,
               warning |-> "No text found in image"]
         ELSE [ok |-> TRUE, text |-> raw.text, confidence |-> raw.confidence,
               warning |-> ""]

\* the language of a new OCRProcessor
DefaultLanguage == "eng+spa+fra"

\* OCRProcessor.isReady
IsReady(initialized, tess) == initialized /\ tess # NULL

(***************************************************************************)
(* extractTextFromSelection                                                *)
(***************************************************************************)
EmptyResults ==
  [selectableText |-> <<>>, ocrText |-> <<>>, combinedText |-> <<>>,
   images |-> <<>>, errors |-> <<>>]

\* an entry of results.errors (imageIndex 0: the entry carries none)
ErrorEntry(type, message, imageIndex, src) ==
  [type |-> type, error |-> message, imageIndex |-> imageIndex, src |-> src]

PushError(res, entry) == [res EXCEPT !.errors = Append(@, entry)]

\* imageData.info.src || 'selection-area'
SrcOf(imageData) ==
  IF imageData.info.kind = "selection-area" THEN <<"selection-area", 0>>
  ELSE imageData.info.src

\* step 3 without the replacement of long newline runs
CombineTextNoCollapse(res, ocr) ==
  LET ocrText == IF Len(ocr) > 0 THEN Join(ocr, <<NL, NL>>) ELSE res.ocrText
      parts == (IF Trim(res.selectableText) # <<>>
                  THEN <<Trim(res.selectableText)>> ELSE <<>>)
               \o (IF Trim(ocrText) # <<>> THEN <<Trim(ocrText)>> ELSE <<>>)
  IN [res EXCEPT !.ocrText = ocrText, !.combinedText = Trim(Join(parts, <<NL, NL>>))]

\* step 3: combine selectable text and OCR text
CombineText(res, ocr) ==
  LET ocrText == IF Len(ocr) > 0 THEN Join(ocr, <<NL, NL>>) ELSE res.ocrText
      parts == (IF Trim(res.selectableText) # <<>>
                  THEN <<Trim(res.selectableText)>> ELSE <<>>)
               \o (IF Trim(ocrText) # <<>> THEN <<Trim(ocrText)>> ELSE <<>>)
      joined == Join(parts, <<NL, NL>>)
  IN [res EXCEPT !.ocrText = ocrText,
                 !.combinedText = Trim(ReplaceNewlineRuns(joined, 4, 3))]

\* an outer try without its catch: the error leaves the call
OuterCatchRethrows(res, message) == [outcome |-> "rejected", results |-> res]

\* the catch of the outer try: the error is recorded and results returned
\* as they stand
OuterCatch(res, message) ==
  [outcome |-> "resolved",
   results |-> PushError(res, ErrorEntry("extraction_failed", message, 0, <<"none", 0>>))]

\* a recording that loses the confidence of a successful recognition
RecordRecognitionNoConfidence(res, imageData, index, r) ==
  IF r.ok
  THEN [res EXCEPT !.images = Append(@,
          [src |-> SrcOf(imageData), text |-> r.text, confidence |-> 0,
           warning |-> IF Trim(r.text) # <<>> THEN "" ELSE "No text detected in image",
           error |-> ""])]
  ELSE [res EXCEPT
          !.errors = Append(@, ErrorEntry("ocr_failure", r.message, index, SrcOf(imageData))),
          !.images = Append(@,
               [src |-> SrcOf(imageData), text |-> <<>>, confidence |-> -1,
                warning |-> "", error |-> r.message])]

\* the entries one recognition adds to results.images / results.errors
RecordRecognition(res, imageData, index, r) ==
  IF r.ok
  THEN IF Trim(r.text) # <<>>
       THEN [res EXCEPT !.images = Append(@,
               [src |-> SrcOf(imageData), text |-> r.text,
                confidence |-> r.confidence, warning |-> "", error |-> ""])]
       ELSE [res EXCEPT !.images = Append(@,
               [src |-> SrcOf(imageData), text |-> <<>>, confidence |-> 0,
                warning |-> "No text detected in image", error |-> ""])]
  ELSE [res EXCEPT
          !.errors = Append(@, ErrorEntry("ocr_failure", r.message, index, SrcOf(imageData))),
          !.images = Append(@,
               [src |-> SrcOf(imageData), text |-> <<>>, confidence |-> -1,
                warning |-> "", error |-> r.message])]

\* a guard that enters the OCR branch for an empty list too
NeedsOCRAlways(detected) == Len(detected) >= 0

\* the guard of the OCR branch: detectedImages.length > 0
NeedsOCR(detected) == Len(detected) > 0

\* a loop that stops at the first failed recognition
LoopEndsOnFailure(r, index, n) == index >= n \/ ~r.ok

\* whether the loop over imageDataArray ends after entry index of n was
\* processed with result r (the catch inside the loop lets it go on)
LoopEnds(r, index, n) == index >= n

\* a sub-step recorded in the history
Step(name, src, ok, raw) ==
  [step |-> name, src |-> src, ok |-> ok, raw |-> raw, lang |-> currentLanguage]
NoRaw == [kind |-> "none"]
NoSrc == <<"none", 0>>

\* the call returns results after step 3
Finish(res, ocr) ==
  /\ results' = CombineText(res, ocr)
  /\ pc' = "done"
  /\ outcome' = "resolved"

\* the synchronous start of the call: selectable text, image detection, and
\* the whole call when no image is detected
ExtractStart ==
  /\ pc = "start"
  /\ LET res == [results EXCEPT !.selectableText = ExtractSelectableText(dom, selectionData)]
         detected == DetectImagesInSelection(dom, selectionData)
     IN /\ detectedImages' = detected
        /\ IF ~NeedsOCR(detected)
           THEN Finish(res, ocrResults)
           ELSE /\ results' = res
                /\ pc' = IF ocrDefined THEN "initialize" ELSE "loadScript"
                /\ outcome' = outcome
  /\ UNCHANGED <<swVars, selVars, pageVars, envVars, processorVars, adapterVars, ocrCandidates, imageDataArray, k, i, ocrResults, trace>>

\* loadOCRScript settles: the script ran and defined window.OCRProcessor, ran
\* without defining it in this world, or could not be loaded
LoadOCRScriptSettles ==
  /\ pc = "loadScript"
  /\ \E how \in {"defined", "undefined", "failed"} :
       /\ trace' = Append(trace, Step("loadOCRScript", NoSrc, how # "failed", [kind |-> how]))
       /\ IF how = "failed"
          THEN LET c == OuterCatch(results, "Failed to load OCR processor")
               IN /\ results' = c.results
                  /\ outcome' = c.outcome
                  /\ pc' = "done"
                  /\ UNCHANGED ocrDefined
          ELSE IF how = "undefined"
          THEN /\ Finish(PushError(results,
                    ErrorEntry("processor_unavailable",
                      "OCR processor not available. Tesseract.js may not be loaded.",
                      0, NoSrc)), ocrResults)
               /\ UNCHANGED ocrDefined
          ELSE /\ ocrDefined' = TRUE
               /\ pc' = "initialize"
               /\ UNCHANGED <<results, outcome>>
  /\ UNCHANGED <<swVars, selVars, pageVars, envVars, processorVars, tesseractLoaded, isInitialized, tesseract,
                 currentLanguage, detectedImages, ocrCandidates, imageDataArray, k, i, ocrResults>>

\* OCRProcessor.initialize settles, then isReady is tested and
\* extractImagesForOCR starts
InitializeSettles ==
  /\ pc = "initialize"
  /\ \E cdn \in BOOLEAN :
       LET lang == IF ocrLanguage # NULL THEN ocrLanguage ELSE currentLanguage
           ok == tesseractLoaded \/ cdn
           initialized == ok \/ isInitialized
           tess == IF ok THEN "Tesseract" ELSE tesseract
           res == IF ok THEN results
                  ELSE PushError(results,
                         ErrorEntry("initialization_failure",
                           "Failed to initialize OCR processor: Failed to initialize OCR: Failed to load Tesseract.js from CDN",
                           0, NoSrc))
           candidates == DetectImagesInSelection(dom, selectionData)
       IN /\ (tesseractLoaded => cdn)
          /\ tesseractLoaded' = ok
          /\ isInitialized' = initialized
          /\ tesseract' = tess
          /\ currentLanguage' = lang
          /\ trace' = Append(trace, Step("initialize", NoSrc, ok, NoRaw))
          /\ IF IsReady(initialized, tess)
             THEN /\ ocrCandidates' = candidates
                  /\ results' = res
                  /\ k' = 1
                  /\ pc' = IF Len(candidates) > 0 THEN "getImageData" ELSE "capture"
                  /\ UNCHANGED outcome
             ELSE /\ Finish(PushError(res,
                       ErrorEntry("processor_not_ready", "OCR processor not ready", 0, NoSrc)),
                       ocrResults)
                  /\ UNCHANGED <<ocrCandidates, k>>
  /\ UNCHANGED <<swVars, selVars, pageVars, envVars, processorVars, ocrDefined, detectedImages, imageDataArray, i, ocrResults>>

\* getImageData settles for candidate k: the image loaded, or it did not and
\* the <img> element itself is used, or (no <img>) the promise rejected and
\* extractImagesForOCR drops the candidate
GetImageDataSettles ==
  /\ pc = "getImageData"
  /\ \E loaded \in BOOLEAN :
       LET info == ocrCandidates[k]
           resolved == loaded \/ info.kind = "img"
       IN /\ imageDataArray' =
               IF resolved
               THEN Append(imageDataArray,
                      [image |-> IF loaded THEN "image" ELSE "element", info |-> info])
               ELSE imageDataArray
          /\ trace' = Append(trace, Step("getImageData", info.src, resolved,
                                          [kind |-> IF loaded THEN "load" ELSE "error"]))
  /\ k' = k + 1
  /\ pc' = IF k < Len(ocrCandidates) THEN "getImageData" ELSE "capture"
  /\ UNCHANGED <<swVars, selVars, pageVars, envVars, processorVars, adapterVars, results, detectedImages, ocrCandidates, i, ocrResults, outcome>>

\* captureAreaWithCanvas settles (html2canvas, the blank canvas of
\* captureSelectionAsImage, or a rejection that extractImagesForOCR drops);
\* extractImagesForOCR returns and the OCR loop starts
CaptureSettles ==
  /\ pc = "capture"
  /\ \E how \in {"html2canvas", "blank", "failed"} :
       LET array == IF how = "failed" THEN imageDataArray
                    ELSE Append(imageDataArray,
                           [image |-> "canvas", info |-> [kind |-> "selection-area"]])
       IN /\ imageDataArray' = array
          /\ trace' = Append(trace,
                        Step("capture", <<"selection-area", 0>>, how # "failed", NoRaw))
          /\ IF Len(array) > 0
             THEN /\ i' = 1
                  /\ pc' = "recognize"
                  /\ UNCHANGED <<results, outcome>>
             ELSE /\ Finish(results, ocrResults)
                  /\ UNCHANGED i
  /\ UNCHANGED <<swVars, selVars, pageVars, envVars, processorVars, adapterVars, detectedImages, ocrCandidates, k, ocrResults>>

\* what can happen inside extractText for an image
DataOutcomes ==
  { [kind |-> "data", text |-> <<"A", "B", "C">>, confidence |-> 92],
    [kind |-> "data", text |-> <<"b", NL>>, confidence |-> 60],
    [kind |-> "data", text |-> <<NL, "b">>, confidence |-> 60],
    [kind |-> "data", text |-> <<SP>>, confidence |-> 0] }

RawOutcomes(image) ==
  DataOutcomes
    \cup {[kind |-> "engine_error"], [kind |-> "hang"]}
    \cup (IF image = "element"
          THEN {[kind |-> "invalid", fault |-> "element-not-loaded"]} ELSE {})

\* OCRProcessor.extractText settles for entry i of imageDataArray
RecognizeSettles ==
  /\ pc = "recognize"
  /\ \E raw \in RawOutcomes(imageDataArray[i].image) :
       LET imageData == imageDataArray[i]
           r == ExtractText(raw)
           res == RecordRecognition(results, imageData, i, r)
           ocr == IF r.ok /\ Trim(r.text) # <<>> THEN Append(ocrResults, r.text)
                  ELSE ocrResults
       IN /\ trace' = Append(trace, Step("recognize", SrcOf(imageData), r.ok, raw))
          /\ ocrResults' = ocr
          /\ IF LoopEnds(r, i, Len(imageDataArray))
             THEN /\ Finish(res, ocr)
                  /\ UNCHANGED i
             ELSE /\ results' = res
                  /\ i' = i + 1
                  /\ UNCHANGED <<pc, outcome>>
  /\ UNCHANGED <<swVars, selVars, pageVars, envVars, processorVars, adapterVars, detectedImages, ocrCandidates, imageDataArray, k>>

(***************************************************************************)
(* The selection overlay script.  Pointer positions are viewport           *)
(* coordinates; the page coordinates x, y of selectionData (the viewport   *)
(* ones plus the scroll offset) are read by no later step and are left     *)
(* out.                                                                    *)
(***************************************************************************)
\* border of the selection box, in pixels
BorderWidth == 2

\* selectionBox.getBoundingClientRect(): nothing while display is none;
\* with box-sizing: border-box the box is never narrower than its borders
BoxRect(box) ==
  IF box.display = "none"
  THEN [left |-> 0, top |-> 0, width |-> 0, height |-> 0]
  ELSE [left |-> box.left, top |-> box.top,
        width |-> Max2(box.width, 2 * BorderWidth),
        height |-> Max2(box.height, 2 * BorderWidth)]

\* the selectionData handleMouseUp builds from that rectangle
SelectionDataOf(rect) ==
  [width |-> rect.width, height |-> rect.height,
   viewportX |-> rect.left, viewportY |-> rect.top,
   viewportWidth |-> rect.width, viewportHeight |-> rect.height]

\* a size test that lets a rectangle through when one side is long enough
HasMeaningfulSizeEitherSide(sd) == sd.width > 5 \/ sd.height > 5

\* "Only proceed if selection has meaningful size"
HasMeaningfulSize(sd) == sd.width > 5 /\ sd.height > 5

Abs(n) == IF n < 0 THEN -n ELSE n

NewBox == [display |-> "none", left |-> 0, top |-> 0, width |-> 0, height |-> 0]

\* selectionBox = null
NoBox == [display |-> "null", left |-> 0, top |-> 0, width |-> 0, height |-> 0]

\* no rectangle (in a history variable, or in a message that carries none)
NoSelection ==
  [width |-> -1, height |-> -1, viewportX |-> -1, viewportY |-> -1,
   viewportWidth |-> -1, viewportHeight |-> -1]

\* a handled message or event: what it was, its inputs (button and kind of
\* target of a mousedown, key of a keydown), whether the handler called
\* preventDefault, and its place in a plain click on the armed page
\* (1 mousedown, 2 mouseup right after it, 3 click right after that; else 0)
Event(type, button, interactive, key, prevented, gesture) ==
  [type |-> type, button |-> button, interactive |-> interactive, key |-> key,
   prevented |-> prevented, gesture |-> gesture]

NoEvent == Event("none", 0, FALSE, "", FALSE, 0)

\* the languages used, and the OCR processor with no call made: an empty
\* workerCache (0: no entry), no timer pending
Languages == {DefaultLanguage, "fra"}

ProcessorInit ==
  /\ recogs = <<>>
  /\ initCalls = <<>>
  /\ preWarmTimers = 0
  /\ workers = <<>>
  /\ workerCache = [l \in Languages |-> 0]
  /\ evictionTimers = [l \in Languages |-> 0]
  /\ pendingWrite = NULL
  /\ lastSet = NULL

\* the service worker as loaded: let isSelectionModeActive = false, no badge
ServiceWorkerInit ==
  /\ swIsSelectionModeActive = FALSE
  /\ badgeText = ""
  /\ clickCalls = <<>>
  /\ retriesActivation = FALSE
  /\ contentActive = FALSE
  /\ toWorker = <<>>
  /\ received = <<>>

SelInit ==
  /\ isSelectionModeActive = FALSE
  /\ isSelecting = FALSE
  /\ startX = 0
  /\ startY = 0
  /\ selectionOverlay = NULL
  /\ selectionBox = NoBox
  /\ loadingIndicator = NULL
  /\ cursor = ""
  /\ listeners = FALSE
  /\ textExtractorAvailable \in BOOLEAN
  /\ inFlight = <<>>
  /\ sent = <<>>
  /\ lastRect = NoSelection
  /\ extractCalls = 0
  /\ activations = 0
  /\ lastEvent = NoEvent

\* an activation without the test of isSelectionModeActive: the overlay and
\* the box are created again
ActivateSelectionModeAgain ==
  /\ activations < MaxActivations
  /\ activations' = activations + 1
  /\ lastEvent' = Event("activate", 0, FALSE, "", FALSE, 0)
  /\ isSelectionModeActive' = TRUE
  /\ selectionOverlay' = "overlay"
  /\ selectionBox' = NewBox
  /\ cursor' = "crosshair"
  /\ listeners' = TRUE
  /\ UNCHANGED <<isSelecting, startX, startY, loadingIndicator, textExtractorAvailable,
                 inFlight, sent, lastRect, extractCalls>>
  /\ UNCHANGED <<swVars, pageVars, envVars, processorVars, adapterVars, extractVars>>

\* message activateSelectionMode
ActivateSelectionMode ==
  /\ activations < MaxActivations
  /\ activations' = activations + 1
  /\ lastEvent' = Event("activate", 0, FALSE, "", FALSE, 0)
  /\ IF isSelectionModeActive
     THEN UNCHANGED <<isSelectionModeActive, selectionOverlay, selectionBox, cursor, listeners>>
     ELSE /\ isSelectionModeActive' = TRUE
          /\ selectionOverlay' = "overlay"
          /\ selectionBox' = NewBox
          /\ cursor' = "crosshair"
          /\ listeners' = TRUE
  /\ UNCHANGED <<isSelecting, startX, startY, loadingIndicator, textExtractorAvailable,
                 inFlight, sent, lastRect, extractCalls>>
  /\ UNCHANGED <<swVars, pageVars, envVars, processorVars, adapterVars, extractVars>>

\* message deactivateSelectionMode
DeactivateSelectionMode ==
  /\ lastEvent' = Event("deactivate", 0, FALSE, "", FALSE, 0)
  /\ IF ~isSelectionModeActive
     THEN UNCHANGED <<isSelectionModeActive, isSelecting, selectionOverlay, selectionBox,
                      cursor, listeners>>
     ELSE /\ isSelectionModeActive' = FALSE
          /\ isSelecting' = FALSE
          /\ selectionOverlay' = NULL
          /\ selectionBox' = NoBox
          /\ cursor' = ""
          /\ listeners' = FALSE
  /\ UNCHANGED <<startX, startY, loadingIndicator, textExtractorAvailable,
                 inFlight, sent, lastRect, extractCalls, activations>>
  /\ UNCHANGED <<swVars, pageVars, envVars, processorVars, adapterVars, extractVars>>

\* the mousedown handler of the first version of the script, which has no
\* test of the target
PassedThroughAnyTarget(active, button, interactive) == ~active \/ button # 0

\* the early returns of handleMouseDown: not the left button, or the target
\* is an interactive control or inside one
PassedThrough(active, button, interactive) == ~active \/ button # 0 \/ interactive

\* mousedown at (x, y) with a button, on an interactive control or not
HandleMouseDown ==
  /\ listeners
  /\ extractCalls < MaxCommits
  /\ \E x \in Anchors, y \in Anchors, button \in {0, 2}, interactive \in BOOLEAN :
       /\ lastEvent' =
            LET started == ~PassedThrough(isSelectionModeActive, button, interactive)
            IN Event("mousedown", button, interactive, "", started,
                     IF started /\ ~isSelecting /\ selectionOverlay # NULL THEN 1 ELSE 0)
       /\ IF PassedThrough(isSelectionModeActive, button, interactive)
          THEN UNCHANGED <<isSelecting, startX, startY, selectionBox>>
          ELSE /\ isSelecting' = TRUE
               /\ startX' = x
               /\ startY' = y
               /\ selectionBox' =
                    IF selectionBox # NoBox
                    THEN [display |-> "block", left |-> x, top |-> y, width |-> 0, height |-> 0]
                    ELSE selectionBox
  /\ UNCHANGED <<isSelectionModeActive, selectionOverlay, loadingIndicator, cursor, listeners,
                 textExtractorAvailable, inFlight, sent, lastRect, extractCalls, activations>>
  /\ UNCHANGED <<swVars, pageVars, envVars, processorVars, adapterVars, extractVars>>

\* mousemove to (x, y)
HandleMouseMove ==
  /\ listeners
  /\ lastEvent' = Event("mousemove", 0, FALSE, "",
                        isSelectionModeActive /\ isSelecting /\ selectionBox # NoBox, 0)
  /\ \E x \in Coords, y \in Coords :
       /\ IF ~isSelectionModeActive \/ ~isSelecting \/ selectionBox = NoBox
          THEN UNCHANGED selectionBox
          ELSE selectionBox' =
                 [selectionBox EXCEPT !.left = Min2(startX, x), !.top = Min2(startY, y),
                                      !.width = Abs(x - startX), !.height = Abs(y - startY)]
  /\ UNCHANGED <<isSelectionModeActive, isSelecting, startX, startY, selectionOverlay,
                 loadingIndicator, cursor, listeners, textExtractorAvailable, inFlight, sent,
                 lastRect, extractCalls, activations>>
  /\ UNCHANGED <<swVars, pageVars, envVars, processorVars, adapterVars, extractVars>>

\* mouseup: the selection ends; a meaningful rectangle goes to
\* handleSelectionComplete, which runs up to its await (or to its end when
\* window.TextExtractor is missing)
HandleMouseUp ==
  /\ listeners
  /\ lastEvent' =
       LET ended == isSelectionModeActive /\ isSelecting
       IN Event("mouseup", 0, FALSE, "", ended,
                IF ended /\ lastEvent.gesture = 1 THEN 2 ELSE 0)
  /\ IF ~isSelectionModeActive \/ ~isSelecting
     THEN UNCHANGED <<isSelecting, selectionOverlay, selectionBox, loadingIndicator,
                      inFlight, sent, lastRect, extractCalls>>
     ELSE /\ isSelecting' = FALSE
          /\ IF selectionBox = NoBox
             THEN UNCHANGED <<selectionOverlay, selectionBox, loadingIndicator,
                              inFlight, sent, lastRect, extractCalls>>
             ELSE LET sd == SelectionDataOf(BoxRect(selectionBox))
                  IN /\ lastRect' = sd
                     /\ IF HasMeaningfulSize(sd)
                        THEN IF textExtractorAvailable
                             THEN /\ loadingIndicator' = "indicator"
                                  /\ inFlight' = Append(inFlight, sd)
                                  /\ extractCalls' = extractCalls + 1
                                  /\ UNCHANGED <<selectionOverlay, selectionBox, sent>>
                             ELSE /\ sent' = Append(sent, [action |-> "selectionComplete", selection |-> sd])
                                  /\ loadingIndicator' = NULL
                                  /\ selectionOverlay' = NULL
                                  /\ selectionBox' = NoBox
                                  /\ UNCHANGED <<inFlight, extractCalls>>
                        ELSE /\ selectionOverlay' = NULL
                             /\ selectionBox' = NoBox
                             /\ UNCHANGED <<loadingIndicator, inFlight, sent, extractCalls>>
  /\ UNCHANGED <<isSelectionModeActive, startX, startY, cursor, listeners,
                 textExtractorAvailable, activations>>
  /\ UNCHANGED <<swVars, pageVars, envVars, processorVars, adapterVars, extractVars>>

\* a handleSelectionComplete whose cleanup is at the end of the try block
\* instead of in a finally block
ExtractionSettlesNoFinally ==
  /\ \E n \in 1..Len(inFlight), threw \in BOOLEAN :
       /\ sent' = Append(sent,
            [action |-> IF threw THEN "extractionError" ELSE "textExtractionComplete",
             selection |-> inFlight[n]])
       /\ inFlight' = [j \in 1..(Len(inFlight) - 1) |->
                         IF j < n THEN inFlight[j] ELSE inFlight[j + 1]]
       /\ lastEvent' = Event(IF threw THEN "rejected" ELSE "resolved", 0, FALSE, "", FALSE, 0)
  /\ IF sent'[Len(sent')].action = "extractionError"
     THEN UNCHANGED <<loadingIndicator, selectionOverlay, selectionBox>>
     ELSE /\ loadingIndicator' = NULL
          /\ selectionOverlay' = NULL
          /\ selectionBox' = NoBox
  /\ UNCHANGED <<isSelectionModeActive, isSelecting, startX, startY, cursor, listeners,
                 textExtractorAvailable, lastRect, extractCalls, activations>>
  /\ UNCHANGED <<swVars, pageVars, envVars, processorVars, adapterVars, extractVars>>

\* a handleSelectionComplete whose catch block sends the error and calls
\* extractTextFromSelection again on the same rectangle
ExtractionSettlesRetries ==
  /\ \E n \in 1..Len(inFlight), threw \in BOOLEAN :
       /\ sent' = Append(sent,
            [action |-> IF threw THEN "extractionError" ELSE "textExtractionComplete",
             selection |-> inFlight[n]])
       /\ inFlight' = IF threw /\ extractCalls <= MaxCommits
                      THEN inFlight
                      ELSE [j \in 1..(Len(inFlight) - 1) |->
                              IF j < n THEN inFlight[j] ELSE inFlight[j + 1]]
       /\ extractCalls' = IF threw /\ extractCalls <= MaxCommits
                          THEN extractCalls + 1 ELSE extractCalls
       /\ lastEvent' = Event(IF threw THEN "rejected" ELSE "resolved", 0, FALSE, "", FALSE, 0)
  /\ loadingIndicator' = NULL
  /\ selectionOverlay' = NULL
  /\ selectionBox' = NoBox
  /\ UNCHANGED <<isSelectionModeActive, isSelecting, startX, startY, cursor, listeners,
                 textExtractorAvailable, lastRect, activations>>
  /\ UNCHANGED <<swVars, pageVars, envVars, processorVars, adapterVars, extractVars>>

\* a handleSelectionComplete whose catch block only logs the error
ExtractionSettlesSwallowsError ==
  /\ \E n \in 1..Len(inFlight), threw \in BOOLEAN :
       /\ sent' = IF threw THEN sent
                  ELSE Append(sent, [action |-> "textExtractionComplete",
                                     selection |-> inFlight[n]])
       /\ inFlight' = [j \in 1..(Len(inFlight) - 1) |->
                         IF j < n THEN inFlight[j] ELSE inFlight[j + 1]]
       /\ lastEvent' = Event(IF threw THEN "rejected" ELSE "resolved", 0, FALSE, "", FALSE, 0)
  /\ loadingIndicator' = NULL
  /\ selectionOverlay' = NULL
  /\ selectionBox' = NoBox
  /\ UNCHANGED <<isSelectionModeActive, isSelecting, startX, startY, cursor, listeners,
                 textExtractorAvailable, lastRect, extractCalls, activations>>
  /\ UNCHANGED <<swVars, pageVars, envVars, processorVars, adapterVars, extractVars>>

\* the extraction awaited by call n of handleSelectionComplete settles: the
\* try block ends normally or throws, then the finally block runs
ExtractionSettles ==
  /\ \E n \in 1..Len(inFlight), threw \in BOOLEAN :
       /\ sent' = Append(sent,
            [action |-> IF threw THEN "extractionError" ELSE "textExtractionComplete",
             selection |-> inFlight[n]])
       /\ inFlight' = [j \in 1..(Len(inFlight) - 1) |->
                         IF j < n THEN inFlight[j] ELSE inFlight[j + 1]]
       /\ lastEvent' = Event(IF threw THEN "rejected" ELSE "resolved", 0, FALSE, "", FALSE, 0)
  /\ loadingIndicator' = NULL
  /\ selectionOverlay' = NULL
  /\ selectionBox' = NoBox
  /\ UNCHANGED <<isSelectionModeActive, isSelecting, startX, startY, cursor, listeners,
                 textExtractorAvailable, lastRect, extractCalls, activations>>
  /\ UNCHANGED <<swVars, pageVars, envVars, processorVars, adapterVars, extractVars>>

\* an Escape handler that does not call deactivateSelectionMode
HandleKeyDownNoDeactivate ==
  /\ listeners
  /\ \E key \in {"Escape", "a"} :
       /\ lastEvent' = Event("keydown", 0, FALSE, key,
                             isSelectionModeActive /\ key = "Escape", 0)
       /\ IF ~isSelectionModeActive \/ key # "Escape"
          THEN UNCHANGED <<isSelectionModeActive, isSelecting, selectionOverlay, selectionBox,
                           cursor, listeners, sent>>
          ELSE /\ isSelecting' = FALSE
               /\ selectionOverlay' = NULL
               /\ selectionBox' = NoBox
               /\ sent' = Append(sent, [action |-> "cancelSelection", selection |-> NoSelection])
               /\ UNCHANGED <<isSelectionModeActive, cursor, listeners>>
  /\ UNCHANGED <<startX, startY, loadingIndicator, textExtractorAvailable, inFlight,
                 lastRect, extractCalls, activations>>
  /\ UNCHANGED <<swVars, pageVars, envVars, processorVars, adapterVars, extractVars>>

\* keydown
HandleKeyDown ==
  /\ listeners
  /\ \E key \in {"Escape", "a"} :
       /\ lastEvent' = Event("keydown", 0, FALSE, key,
                             isSelectionModeActive /\ key = "Escape", 0)
       /\ IF ~isSelectionModeActive \/ key # "Escape"
          THEN UNCHANGED <<isSelectionModeActive, isSelecting, selectionOverlay, selectionBox,
                           cursor, listeners, sent>>
          ELSE /\ isSelecting' = FALSE
               /\ selectionOverlay' = NULL
               /\ selectionBox' = NoBox
               /\ sent' = Append(sent, [action |-> "cancelSelection", selection |-> NoSelection])
               /\ isSelectionModeActive' = FALSE
               /\ cursor' = ""
               /\ listeners' = FALSE
  /\ UNCHANGED <<startX, startY, loadingIndicator, textExtractorAvailable, inFlight,
                 lastRect, extractCalls, activations>>
  /\ UNCHANGED <<swVars, pageVars, envVars, processorVars, adapterVars, extractVars>>

\* click; the overlay and the box have pointer-events: none, so the target of
\* a pointer event is an element of the page, never one of them
HandleClickOutside ==
  /\ listeners
  /\ \E target \in {"page"} :
       /\ lastEvent' =
            Event("click", 0, FALSE, "",
                  /\ isSelectionModeActive /\ ~isSelecting
                  /\ \/ target = "overlay" /\ selectionOverlay # NULL
                     \/ target = "box" /\ selectionBox # NoBox,
                  IF lastEvent.gesture = 2 THEN 3 ELSE 0)
       /\ IF ~isSelectionModeActive \/ isSelecting
             \/ ~(\/ target = "overlay" /\ selectionOverlay # NULL
                  \/ target = "box" /\ selectionBox # NoBox)
          THEN UNCHANGED <<isSelectionModeActive, isSelecting, selectionOverlay, selectionBox,
                           cursor, listeners, sent>>
          ELSE /\ selectionOverlay' = NULL
               /\ selectionBox' = NoBox
               /\ sent' = Append(sent, [action |-> "cancelSelection", selection |-> NoSelection])
               /\ isSelectionModeActive' = FALSE
               /\ isSelecting' = FALSE
               /\ cursor' = ""
               /\ listeners' = FALSE
  /\ UNCHANGED <<startX, startY, loadingIndicator, textExtractorAvailable, inFlight,
                 lastRect, extractCalls, activations>>
  /\ UNCHANGED <<swVars, pageVars, envVars, processorVars, adapterVars, extractVars>>

(***************************************************************************)
(* Pages and rectangles the extraction is checked on.                      *)
(***************************************************************************)
BoundedSeq(S, n) == UNION {[1..m -> S] : m \in 0..n}

Selections ==
  { [viewportX |-> 20, viewportY |-> 20, viewportWidth |-> 40, viewportHeight |-> 30] }

\* an image well inside the rectangle, and one overlapping it by a sliver
ImgElements ==
  { [rect |-> [left |-> 30, top |-> 25, width |-> 20, height |-> 20]],
    [rect |-> [left |-> 55, top |-> 25, width |-> 20, height |-> 20]] }

\* two elements under the centre point that carry a background image
BgElement(id) ==
  [id |-> id, rect |-> [left |-> 0, top |-> 0, width |-> 100, height |-> 100],
   bg |-> TRUE, text |-> <<>>]

ElementLists == { <<>>, <<BgElement(1)>>, <<BgElement(1), BgElement(2)>> }

TextNodeLists ==
  { <<>>,
    << [text |-> <<"S">>, rect |-> [left |-> 25, top |-> 25, width |-> 10, height |-> 5]] >>,
    << [text |-> <<"x", CR, CR, CR, CR, "y">>,
        rect |-> [left |-> 25, top |-> 25, width |-> 10, height |-> 5]] >> }

Pages ==
  { [imgs |-> im, els |-> el, textNodes |-> tn] :
      im \in BoundedSeq(ImgElements, MaxImgs), el \in ElementLists, tn \in TextNodeLists }

\* a page that holds only the paragraph "Hello world": its text node, and
\* under the centre point the <p> and the <body>, whose innerText is that text
HelloWorld == <<"H", "e", "l", "l", "o", SP, "w", "o", "r", "l", "d">>

HelloPage ==
  [imgs |-> <<>>,
   els |-> << [id |-> 1, rect |-> [left |-> 30, top |-> 40, width |-> 100, height |-> 30],
               bg |-> FALSE, text |-> HelloWorld],
              [id |-> 2, rect |-> [left |-> 0, top |-> 0, width |-> 300, height |-> 200],
               bg |-> FALSE, text |-> HelloWorld \o <<NL, NL>>] >>,
   textNodes |-> << [text |-> HelloWorld,
                     rect |-> [left |-> 30, top |-> 40, width |-> 100, height |-> 30]] >>]

HelloSelection ==
  [viewportX |-> 10, viewportY |-> 10, viewportWidth |-> 200, viewportHeight |-> 100]

\* a rectangle of 3 x 3 pixels handed to extractTextFromSelection directly, on
\* a page with a text node and a background image under it
SmallPage ==
  [imgs |-> <<>>,
   els |-> <<BgElement(1)>>,
   textNodes |-> << [text |-> <<"S">>,
                     rect |-> [left |-> 25, top |-> 25, width |-> 10, height |-> 5]] >>]

SmallSelection ==
  [viewportX |-> 26, viewportY |-> 26, viewportWidth |-> 3, viewportHeight |-> 3]

\* the calls checked: a page and the rectangle passed
Scenarios ==
  {[dom |-> p, sd |-> r] : p \in Pages, r \in Selections}
    \cup {[dom |-> HelloPage, sd |-> HelloSelection],
          [dom |-> SmallPage, sd |-> SmallSelection]}

\* no earlier call
NoCall ==
  [made |-> FALSE, combinedText |-> <<>>, trace |-> <<>>,
   isInitialized |-> FALSE, currentLanguage |-> ""]

Init ==
  /\ \E sc \in Scenarios : dom = sc.dom /\ selectionData = sc.sd
  /\ ocrDefined \in BOOLEAN
  /\ tesseractLoaded \in BOOLEAN
  /\ isInitialized \in BOOLEAN
  /\ (isInitialized => ocrDefined /\ tesseractLoaded)
  /\ tesseract = IF isInitialized THEN "Tesseract" ELSE NULL
  /\ currentLanguage = DefaultLanguage
  /\ ocrLanguage = NULL
  /\ firstCall = NoCall
  /\ pc = "start"
  /\ results = EmptyResults
  /\ detectedImages = <<>>
  /\ ocrCandidates = <<>>
  /\ imageDataArray = <<>>
  /\ k = 0
  /\ i = 0
  /\ ocrResults = <<>>
  /\ outcome = "pending"
  /\ trace = <<>>
  /\ SelInit
  /\ ProcessorInit
  /\ ServiceWorkerInit

Next ==
  \/ ExtractStart
  \/ LoadOCRScriptSettles
  \/ InitializeSettles
  \/ GetImageDataSettles
  \/ CaptureSettles
  \/ RecognizeSettles

Spec == Init /\ [][Next]_vars

(***************************************************************************)
(* Two calls, one after the other, on the same page and rectangle.  The    *)
(* second call finds the OCR processor as the first one left it.  What is  *)
(* outside the program answers the second call as it answered the first:   *)
(* the same script, the same image and the same image with the same        *)
(* language give the same outcome.                                         *)
(***************************************************************************)
\* a second call that goes on with the results object of the first
ExtractAgainSharedResults ==
  /\ pc = "done"
  /\ ~firstCall.made
  /\ firstCall' = [made |-> TRUE, combinedText |-> results.combinedText, trace |-> trace,
                   isInitialized |-> firstCall.isInitialized,
                   currentLanguage |-> firstCall.currentLanguage]
  /\ pc' = "start"
  /\ outcome' = "pending"
  /\ trace' = <<>>
  /\ detectedImages' = <<>>
  /\ ocrCandidates' = <<>>
  /\ imageDataArray' = <<>>
  /\ k' = 0
  /\ i' = 0
  /\ UNCHANGED <<results, ocrResults>>
  /\ UNCHANGED <<swVars, selVars, pageVars, processorVars, ocrLanguage, adapterVars>>

\* the first call has returned and extractTextFromSelection is called again:
\* new results object, new locals
ExtractAgain ==
  /\ pc = "done"
  /\ ~firstCall.made
  /\ firstCall' = [made |-> TRUE, combinedText |-> results.combinedText, trace |-> trace,
                   isInitialized |-> firstCall.isInitialized,
                   currentLanguage |-> firstCall.currentLanguage]
  /\ pc' = "start"
  /\ results' = EmptyResults
  /\ outcome' = "pending"
  /\ trace' = <<>>
  /\ detectedImages' = <<>>
  /\ ocrCandidates' = <<>>
  /\ imageDataArray' = <<>>
  /\ k' = 0
  /\ i' = 0
  /\ ocrResults' = <<>>
  /\ UNCHANGED <<swVars, selVars, pageVars, processorVars, ocrLanguage, adapterVars>>

\* the sub-steps of this call were answered as the same sub-steps of the
\* earlier call were
SameWorld ==
  \A j \in 1..Len(trace), m \in 1..Len(firstCall.trace) :
    ( /\ trace[j].step = firstCall.trace[m].step
      /\ trace[j].src = firstCall.trace[m].src
      /\ trace[j].step = "recognize" => trace[j].lang = firstCall.trace[m].lang )
    => ( /\ trace[j].ok = firstCall.trace[m].ok
         /\ trace[j].raw = firstCall.trace[m].raw )

TwicePages ==
  { [imgs |-> << [rect |-> [left |-> 30, top |-> 25, width |-> 20, height |-> 20]] >>,
     els |-> <<>>,
     textNodes |-> << [text |-> <<"S">>,
                       rect |-> [left |-> 25, top |-> 25, width |-> 10, height |-> 5]] >>],
    [imgs |-> <<>>, els |-> <<BgElement(1)>>, textNodes |-> <<>>] }

InitTwice ==
  /\ dom \in TwicePages
  /\ selectionData \in Selections
  /\ ocrDefined \in BOOLEAN
  /\ tesseractLoaded \in BOOLEAN
  /\ isInitialized \in BOOLEAN
  /\ (isInitialized => ocrDefined /\ tesseractLoaded)
  /\ tesseract = IF isInitialized THEN "Tesseract" ELSE NULL
  /\ currentLanguage \in {DefaultLanguage, "eng"}
  /\ ocrLanguage \in {NULL, "fra"}
  /\ firstCall = [NoCall EXCEPT !.isInitialized = isInitialized,
                                !.currentLanguage = currentLanguage]
  /\ pc = "start"
  /\ results = EmptyResults
  /\ detectedImages = <<>>
  /\ ocrCandidates = <<>>
  /\ imageDataArray = <<>>
  /\ k = 0
  /\ i = 0
  /\ ocrResults = <<>>
  /\ outcome = "pending"
  /\ trace = <<>>
  /\ SelInit
  /\ ProcessorInit
  /\ ServiceWorkerInit

NextTwice ==
  \/ ExtractStart /\ SameWorld'
  \/ LoadOCRScriptSettles /\ SameWorld'
  \/ InitializeSettles /\ SameWorld'
  \/ GetImageDataSettles /\ SameWorld'
  \/ CaptureSettles /\ SameWorld'
  \/ RecognizeSettles /\ SameWorld'
  \/ ExtractAgain

SpecTwice == InitTwice /\ [][NextTwice]_vars

(***************************************************************************)
(* The selection overlay script alone: no extraction call is stepped, the  *)
(* calls handleSelectionComplete awaits settle one way or the other.       *)
(***************************************************************************)
InitSel ==
  /\ SelInit
  /\ ProcessorInit
  /\ ServiceWorkerInit
  /\ dom = [imgs |-> <<>>, els |-> <<>>, textNodes |-> <<>>]
  /\ selectionData \in Selections
  /\ ocrDefined = FALSE
  /\ tesseractLoaded = FALSE
  /\ isInitialized = FALSE
  /\ tesseract = NULL
  /\ currentLanguage = DefaultLanguage
  /\ ocrLanguage = NULL
  /\ firstCall = NoCall
  /\ pc = "idle"
  /\ results = EmptyResults
  /\ detectedImages = <<>>
  /\ ocrCandidates = <<>>
  /\ imageDataArray = <<>>
  /\ k = 0
  /\ i = 0
  /\ ocrResults = <<>>
  /\ outcome = "pending"
  /\ trace = <<>>

NextSel ==
  \/ ActivateSelectionMode
  \/ DeactivateSelectionMode
  \/ HandleMouseDown
  \/ HandleMouseMove
  \/ HandleMouseUp
  \/ ExtractionSettles
  \/ HandleKeyDown
  \/ HandleClickOutside

SpecSel == InitSel /\ [][NextSel]_vars

\* the promise of extractTextFromSelection settles (its awaits end: the
\* recognition is raced against a timer), so an awaiting
\* handleSelectionComplete is resumed
SpecSelFair == SpecSel /\ WF_vars(ExtractionSettles)

(***************************************************************************)
(* OCRProcessor.extractText in small steps.  A call that passes its        *)
(* validation starts an engine pass (Tesseract.recognize) and a 30 s       *)
(* timer and awaits Promise.race of the two; the timer is never cleared    *)
(* and the engine pass is never cancelled.  The caller is the loop of      *)
(* extractTextFromSelection, which awaits each call before the next.       *)
(***************************************************************************)
MaxRecognitions == 2

\* what the engine pass of a call can end with
EngineOutcomes ==
  { [kind |-> "data", text |-> <<"A", "B", "C">>, confidence |-> 92],
    [kind |-> "data", text |-> <<SP>>, confidence |-> 0],
    [kind |-> "engine_error"] }

\* the call has not settled
Pending(call) == call.status = "pending"

\* history: the language of the last setLanguage call if it has returned
\* and no other setLanguage call is in progress, else null
LastSetLanguage == IF pendingWrite = NULL THEN lastSet ELSE NULL

\* extractText is called for the next image: it throws before the engine is
\* started (invalid source), or starts the engine pass and the timer
RecognizeCall ==
  /\ Len(recogs) < MaxRecognitions
  /\ IsReady(isInitialized, tesseract)
  /\ \A n \in 1..Len(recogs) : ~Pending(recogs[n])
  /\ \E fault \in SourceFaults \cup {"none"} :
       recogs' = Append(recogs,
         IF fault = "none"
         THEN [lang |-> currentLanguage, after |-> LastSetLanguage, engine |-> "running",
               timer |-> "pending", status |-> "pending", raw |-> NoRaw]
         ELSE [lang |-> currentLanguage, after |-> LastSetLanguage, engine |-> "none",
               timer |-> "none", status |-> "failed", raw |-> [kind |-> "invalid", fault |-> fault]])
  /\ UNCHANGED <<swVars, pageVars, envVars, adapterVars, extractVars, selVars>>
  /\ UNCHANGED <<initCalls, preWarmTimers, workers, workerCache, evictionTimers,
                 pendingWrite, lastSet>>

\* the engine pass of call n ends with raw: the race settles with it unless
\* the timer has settled it before
EngineSettles(n) ==
  /\ recogs[n].engine = "running"
  /\ \E raw \in EngineOutcomes :
       recogs' = [recogs EXCEPT ![n] =
         IF Pending(@)
         THEN [@ EXCEPT !.engine = "ended", !.raw = raw,
                        !.status = IF ExtractText(raw).ok THEN "returned" ELSE "failed"]
         ELSE [@ EXCEPT !.engine = "ended"]]
  /\ UNCHANGED <<swVars, pageVars, envVars, adapterVars, extractVars, selVars>>
  /\ UNCHANGED <<initCalls, preWarmTimers, workers, workerCache, evictionTimers,
                 pendingWrite, lastSet>>

\* a timer that rejects the call whether or not it has settled
TimerFiresAlwaysRejects(n) ==
  /\ recogs[n].timer = "pending"
  /\ recogs' = [recogs EXCEPT ![n] =
       [@ EXCEPT !.timer = "fired", !.raw = [kind |-> "hang"], !.status = "failed"]]
  /\ UNCHANGED <<swVars, pageVars, envVars, adapterVars, extractVars, selVars>>
  /\ UNCHANGED <<initCalls, preWarmTimers, workers, workerCache, evictionTimers,
                 pendingWrite, lastSet>>

\* the 30 s timer of call n fires: timeoutPromise rejects, which settles the
\* race only if the engine has not
TimerFires(n) ==
  /\ recogs[n].timer = "pending"
  /\ recogs' = [recogs EXCEPT ![n] =
       IF Pending(@)
       THEN [@ EXCEPT !.timer = "fired", !.raw = [kind |-> "hang"], !.status = "failed"]
       ELSE [@ EXCEPT !.timer = "fired"]]
  /\ UNCHANGED <<swVars, pageVars, envVars, adapterVars, extractVars, selVars>>
  /\ UNCHANGED <<initCalls, preWarmTimers, workers, workerCache, evictionTimers,
                 pendingWrite, lastSet>>

EngineSettlesSome == \E n \in 1..Len(recogs) : EngineSettles(n)
TimerFiresSome == \E n \in 1..Len(recogs) : TimerFires(n)

\* no extractTextFromSelection call is stepped
NoExtraction ==
  /\ dom = [imgs |-> <<>>, els |-> <<>>, textNodes |-> <<>>]
  /\ selectionData = HelloSelection
  /\ firstCall = NoCall
  /\ pc = "idle"
  /\ results = EmptyResults
  /\ detectedImages = <<>>
  /\ ocrCandidates = <<>>
  /\ imageDataArray = <<>>
  /\ k = 0
  /\ i = 0
  /\ ocrResults = <<>>
  /\ outcome = "pending"
  /\ trace = <<>>
  /\ SelInit
  /\ textExtractorAvailable

InitRecognize ==
  /\ NoExtraction
  /\ ProcessorInit
  /\ ServiceWorkerInit
  /\ ocrDefined = TRUE
  /\ tesseractLoaded = TRUE
  /\ isInitialized = TRUE
  /\ tesseract = "Tesseract"
  /\ currentLanguage \in Languages
  /\ ocrLanguage = NULL

NextRecognize ==
  \/ RecognizeCall
  \/ EngineSettlesSome
  \/ TimerFiresSome

SpecRecognize == InitRecognize /\ [][NextRecognize]_vars

\* a pending timer fires: the event loop runs every timer callback
SpecRecognizeFair == SpecRecognize /\ WF_vars(TimerFiresSome)

(***************************************************************************)
(* OCRProcessor.initialize, preWarmWorker and setLanguage in small steps.  *)
(* A call of initialize is suspended at its awaits: the read of the stored *)
(* preference (no language given) and the load of the Tesseract script     *)
(* (Tesseract undefined).  Calls can overlap: nothing in initialize tests  *)
(* for a call in flight or for isInitialized.                              *)
(***************************************************************************)
MaxInits == 2

\* the languages initialize pre-warms a worker for
PreWarmed(lang) == lang \in {DefaultLanguage, "eng"}

\* the calls of initialize that have not returned or thrown
InFlightInits == {c \in 1..Len(initCalls) : initCalls[c].pc \in {"pref", "cdn"}}

\* initialize from the test of Tesseract on, for call c of calls with its
\* language decided and this.currentLanguage being cur: with Tesseract
\* defined the call runs to its end (state set, pre-warm timer scheduled),
\* otherwise it appends the script element and awaits its load
InitializeContinues(c, calls, lang, cur) ==
  IF tesseractLoaded
  THEN /\ initCalls' = [calls EXCEPT ![c] =
            [@ EXCEPT !.lang = lang, !.pc = "done", !.timer = PreWarmed(lang)]]
       /\ tesseract' = "Tesseract"
       /\ currentLanguage' = lang
       /\ isInitialized' = TRUE
       /\ preWarmTimers' = preWarmTimers + (IF PreWarmed(lang) THEN 1 ELSE 0)
  ELSE /\ initCalls' = [calls EXCEPT ![c] =
            [@ EXCEPT !.lang = lang, !.pc = "cdn", !.injected = TRUE]]
       /\ currentLanguage' = cur
       /\ UNCHANGED <<tesseract, isInitialized, preWarmTimers>>

\* initialize(arg) is called (arg null: no language given)
InitializeCall ==
  /\ Len(initCalls) < MaxInits
  /\ \E arg \in Languages \cup {NULL} :
       LET calls == Append(initCalls,
                      [arg |-> arg, lang |-> NULL, pc |-> "pref", injected |-> FALSE,
                       timer |-> FALSE, during |-> InFlightInits,
                       unloaded |-> ~tesseractLoaded])
       IN IF arg = NULL
          THEN /\ initCalls' = calls
               /\ UNCHANGED <<tesseract, currentLanguage, isInitialized, preWarmTimers>>
          ELSE InitializeContinues(Len(calls), calls, arg, currentLanguage)
  /\ UNCHANGED <<ocrDefined, tesseractLoaded>>
  /\ UNCHANGED <<swVars, pageVars, envVars, extractVars, selVars>>
  /\ UNCHANGED <<recogs, workers, workerCache, evictionTimers, pendingWrite, lastSet>>

\* the chrome.storage.local.get of loadLanguagePreference settles for call
\* c: a stored preference becomes this.currentLanguage and the language of
\* the call, otherwise (nothing stored, or the read failed) the call takes
\* this.currentLanguage
LoadPreferenceSettles(c) ==
  /\ initCalls[c].pc = "pref"
  /\ \E ok \in BOOLEAN :
       LET pref == IF ok /\ ocrLanguage # NULL THEN ocrLanguage ELSE currentLanguage
       IN InitializeContinues(c, initCalls, pref, pref)
  /\ UNCHANGED <<ocrDefined, tesseractLoaded>>
  /\ UNCHANGED <<swVars, pageVars, envVars, extractVars, selVars>>
  /\ UNCHANGED <<recogs, workers, workerCache, evictionTimers, pendingWrite, lastSet>>

\* the script element appended by call c loads (Tesseract is defined, the
\* call runs to its end) or fails (the call throws)
ScriptSettles(c) ==
  /\ initCalls[c].pc = "cdn"
  /\ \E ok \in BOOLEAN :
       IF ok
       THEN /\ tesseractLoaded' = TRUE
            /\ initCalls' = [initCalls EXCEPT ![c] =
                 [@ EXCEPT !.pc = "done", !.timer = PreWarmed(initCalls[c].lang)]]
            /\ tesseract' = "Tesseract"
            /\ currentLanguage' = initCalls[c].lang
            /\ isInitialized' = TRUE
            /\ preWarmTimers' =
                 preWarmTimers + (IF PreWarmed(initCalls[c].lang) THEN 1 ELSE 0)
       ELSE /\ initCalls' = [initCalls EXCEPT ![c] = [@ EXCEPT !.pc = "failed"]]
            /\ UNCHANGED <<tesseractLoaded, tesseract, currentLanguage, isInitialized,
                           preWarmTimers>>
  /\ UNCHANGED ocrDefined
  /\ UNCHANGED <<swVars, pageVars, envVars, extractVars, selVars>>
  /\ UNCHANGED <<recogs, workers, workerCache, evictionTimers, pendingWrite, lastSet>>

LoadPreferenceSettlesSome == \E c \in 1..Len(initCalls) : LoadPreferenceSettles(c)
ScriptSettlesSome == \E c \in 1..Len(initCalls) : ScriptSettles(c)

\* a 100 ms timer set by initialize fires: preWarmWorker(this.currentLanguage)
\* returns if the cache has a worker for the language, else calls
\* Tesseract.createWorker and awaits it
PreWarmTimerFires ==
  /\ preWarmTimers > 0
  /\ preWarmTimers' = preWarmTimers - 1
  /\ workers' =
       IF workerCache[currentLanguage] # 0
       THEN workers
       ELSE Append(workers, [lang |-> currentLanguage, state |-> "creating"])
  /\ UNCHANGED <<swVars, pageVars, envVars, adapterVars, extractVars, selVars>>
  /\ UNCHANGED <<recogs, initCalls, workerCache, evictionTimers, pendingWrite, lastSet>>

\* createWorker settles for worker w: the worker is put in the cache under
\* its language and a 5 min eviction timer for that language is set, or the
\* creation failed (logged)
CreateWorkerSettles(w) ==
  /\ workers[w].state = "creating"
  /\ \E ok \in BOOLEAN :
       IF ok
       THEN /\ workers' = [workers EXCEPT ![w].state = "alive"]
            /\ workerCache' = [workerCache EXCEPT ![workers[w].lang] = w]
            /\ evictionTimers' = [evictionTimers EXCEPT ![workers[w].lang] = @ + 1]
       ELSE /\ workers' = [workers EXCEPT ![w].state = "failed"]
            /\ UNCHANGED <<workerCache, evictionTimers>>
  /\ UNCHANGED <<swVars, pageVars, envVars, adapterVars, extractVars, selVars>>
  /\ UNCHANGED <<recogs, initCalls, preWarmTimers, pendingWrite, lastSet>>

\* an eviction timer for language l fires: the worker the cache holds for l,
\* if any, is terminated and the entry deleted
EvictionTimerFires(l) ==
  /\ evictionTimers[l] > 0
  /\ evictionTimers' = [evictionTimers EXCEPT ![l] = @ - 1]
  /\ IF workerCache[l] # 0
     THEN /\ workers' = [workers EXCEPT ![workerCache[l]].state = "terminated"]
          /\ workerCache' = [workerCache EXCEPT ![l] = 0]
     ELSE UNCHANGED <<workers, workerCache>>
  /\ UNCHANGED <<swVars, pageVars, envVars, adapterVars, extractVars, selVars>>
  /\ UNCHANGED <<recogs, initCalls, preWarmTimers, pendingWrite, lastSet>>

CreateWorkerSettlesSome == \E w \in 1..Len(workers) : CreateWorkerSettles(w)
EvictionTimerFiresSome == \E l \in Languages : EvictionTimerFires(l)

\* the processor as constructed, with or without Tesseract on the page and
\* with or without a stored preference
InitWorkers ==
  /\ NoExtraction
  /\ ProcessorInit
  /\ ServiceWorkerInit
  /\ ocrDefined = TRUE
  /\ tesseractLoaded \in BOOLEAN
  /\ isInitialized = FALSE
  /\ tesseract = NULL
  /\ currentLanguage = DefaultLanguage
  /\ ocrLanguage \in {NULL, "fra"}

NextWorkers ==
  \/ InitializeCall
  \/ LoadPreferenceSettlesSome
  \/ ScriptSettlesSome
  \/ PreWarmTimerFires
  \/ CreateWorkerSettlesSome
  \/ EvictionTimerFiresSome

SpecWorkers == InitWorkers /\ [][NextWorkers]_vars

\* every timer callback that is due runs, and every createWorker settles
SpecWorkersFair ==
  /\ SpecWorkers
  /\ WF_vars(PreWarmTimerFires)
  /\ WF_vars(CreateWorkerSettlesSome)
  /\ WF_vars(EvictionTimerFiresSome)

\* setLanguage(l, save) is called by a caller that awaits it: the language
\* is set and the processor marked uninitialized at once; with save the call
\* awaits the storage write, without it the call returns
SetLanguageCall ==
  /\ pendingWrite = NULL
  /\ \E l \in Languages, save \in BOOLEAN :
       /\ currentLanguage' = l
       /\ isInitialized' = FALSE
       /\ IF save
          THEN pendingWrite' = l /\ UNCHANGED lastSet
          ELSE lastSet' = l /\ UNCHANGED pendingWrite
  /\ UNCHANGED <<ocrDefined, tesseractLoaded, tesseract>>
  /\ UNCHANGED <<swVars, pageVars, envVars, extractVars, selVars>>
  /\ UNCHANGED <<recogs, initCalls, preWarmTimers, workers, workerCache, evictionTimers>>

\* the chrome.storage.local.set of setLanguage settles: the preference is
\* stored, or the write failed (caught and logged); the call returns
StorageWriteSettles ==
  /\ pendingWrite # NULL
  /\ \E ok \in BOOLEAN : ocrLanguage' = IF ok THEN pendingWrite ELSE ocrLanguage
  /\ lastSet' = pendingWrite
  /\ pendingWrite' = NULL
  /\ UNCHANGED <<swVars, pageVars, firstCall, adapterVars, extractVars, selVars>>
  /\ UNCHANGED <<recogs, initCalls, preWarmTimers, workers, workerCache, evictionTimers>>

\* the processor as constructed on a page without Tesseract, with or without
\* a stored preference
InitLanguage ==
  /\ NoExtraction
  /\ ProcessorInit
  /\ ServiceWorkerInit
  /\ ocrDefined = TRUE
  /\ tesseractLoaded = FALSE
  /\ isInitialized = FALSE
  /\ tesseract = NULL
  /\ currentLanguage = DefaultLanguage
  /\ ocrLanguage \in {NULL, "fra"}

\* the initialize() of extractTextFromSelection: no language is passed
InitializeFromExtract == InitializeCall /\ initCalls'[Len(initCalls')].arg = NULL

\* setLanguage called while no initialize call is in progress
SetLanguageBetweenCalls == SetLanguageCall /\ InFlightInits = {}

\* the language changes only through setLanguage, called between the other
\* calls: every initialize is the one of extractTextFromSelection, and every
\* extractText is called without options
NextLanguage ==
  \/ SetLanguageBetweenCalls
  \/ StorageWriteSettles
  \/ InitializeFromExtract
  \/ LoadPreferenceSettlesSome
  \/ ScriptSettlesSome
  \/ RecognizeCall
  \/ EngineSettlesSome

SpecLanguage == InitLanguage /\ [][NextLanguage]_vars

(***************************************************************************)
(* extractSelectableText on pages of text: up to MaxTextNodes text nodes   *)
(* in tree order, inside the rectangle, touching its right edge, or        *)
(* beyond it, with or without an element under the centre point.  No       *)
(* image is on the page, so the call ends in its first step.               *)
(***************************************************************************)
MaxTextNodes == 2

\* texts of a text node: plain, with surrounding whitespace, with \r and
\* \r\n line endings, with a tab
NodeTexts ==
  { <<"S">>,
    <<SP, "S", NL>>,
    <<"x", CR, CR, CR, CR, "y">>,
    <<"a", CR, NL, CR, NL, CR, NL, "b">>,
    <<"t", TAB, "u", CR>> }

\* rectangles of a text node relative to the rectangle of Selections
\* (20..60 x 20..50): inside, sharing only the edge x = 60, and apart
NodeRects ==
  { [left |-> 25, top |-> 25, width |-> 10, height |-> 5],
    [left |-> 60, top |-> 25, width |-> 10, height |-> 5],
    [left |-> 61, top |-> 25, width |-> 10, height |-> 5] }

TextNodes == { [text |-> t, rect |-> r] : t \in NodeTexts, r \in NodeRects }

\* the element under the centre point, whose innerText is S
CentreElement ==
  [id |-> 1, rect |-> [left |-> 0, top |-> 0, width |-> 100, height |-> 100],
   bg |-> FALSE, text |-> <<"S", SP>>]

TextPages ==
  { [imgs |-> <<>>, els |-> el, textNodes |-> tn] :
      el \in {<<>>, <<CentreElement>>}, tn \in BoundedSeq(TextNodes, MaxTextNodes) }

InitText ==
  /\ dom \in TextPages
  /\ selectionData \in Selections
  /\ ocrDefined = TRUE
  /\ tesseractLoaded = TRUE
  /\ isInitialized = FALSE
  /\ tesseract = NULL
  /\ currentLanguage = DefaultLanguage
  /\ ocrLanguage = NULL
  /\ firstCall = NoCall
  /\ pc = "start"
  /\ results = EmptyResults
  /\ detectedImages = <<>>
  /\ ocrCandidates = <<>>
  /\ imageDataArray = <<>>
  /\ k = 0
  /\ i = 0
  /\ ocrResults = <<>>
  /\ outcome = "pending"
  /\ trace = <<>>
  /\ SelInit
  /\ textExtractorAvailable
  /\ ProcessorInit
  /\ ServiceWorkerInit

NextText == ExtractStart

SpecText == InitText /\ [][NextText]_vars

(***************************************************************************)
(* The service worker: the icon-click listener with its asynchronous       *)
(* activation and deactivation, and the listener for the messages of the   *)
(* content script.  One tab.                                               *)
(***************************************************************************)
MaxClicks == 3
MaxMessages == 2

\* the actions of the messages the content script sends
ContentActions ==
  {"cancelSelection", "textExtractionComplete", "selectionComplete", "extractionError"}

\* the icon-click handlers suspended at an await
SuspendedClicks == {c \in 1..Len(clickCalls) : clickCalls[c].pc # "done"}

\* the icon is clicked: the flag is toggled, then activateSelectionMode or
\* deactivateSelectionMode runs up to its first await
IconClicked ==
  /\ Len(clickCalls) < MaxClicks
  /\ swIsSelectionModeActive' = ~swIsSelectionModeActive
  /\ clickCalls' = Append(clickCalls,
       IF ~swIsSelectionModeActive
       THEN [kind |-> "activate", pc |-> "executeScript"]
       ELSE [kind |-> "deactivate", pc |-> "sendMessage"])
  /\ UNCHANGED <<badgeText, retriesActivation, contentActive, toWorker, received>>
  /\ UNCHANGED <<pageVars, envVars, adapterVars, extractVars, selVars, processorVars>>

\* chrome.scripting.executeScript of an activation settles: a rejection
\* leaves activateSelectionMode and the click handler's catch clears the
\* flag; the retrying activateSelectionMode ignores it and waits 100 ms
ExecuteScriptSettles ==
  /\ \E c \in SuspendedClicks, ok \in BOOLEAN :
       /\ clickCalls[c].pc = "executeScript"
       /\ IF retriesActivation
          THEN /\ clickCalls' = [clickCalls EXCEPT ![c].pc = "wait100"]
               /\ UNCHANGED swIsSelectionModeActive
          ELSE IF ok
               THEN /\ clickCalls' = [clickCalls EXCEPT ![c].pc = "sendMessage"]
                    /\ UNCHANGED swIsSelectionModeActive
               ELSE /\ clickCalls' = [clickCalls EXCEPT ![c].pc = "done"]
                    /\ swIsSelectionModeActive' = FALSE
  /\ UNCHANGED <<badgeText, retriesActivation, contentActive, toWorker, received>>
  /\ UNCHANGED <<pageVars, envVars, adapterVars, extractVars, selVars, processorVars>>

\* the 100 ms wait before the message, or the 500 ms wait before the retry,
\* ends
DelayElapses ==
  /\ \E c \in SuspendedClicks :
       /\ clickCalls[c].pc \in {"wait100", "wait500"}
       /\ clickCalls' = [clickCalls EXCEPT ![c].pc =
            IF clickCalls[c].pc = "wait100" THEN "sendMessage" ELSE "retryMessage"]
  /\ UNCHANGED <<swIsSelectionModeActive, badgeText, retriesActivation, contentActive,
                 toWorker, received>>
  /\ UNCHANGED <<pageVars, envVars, adapterVars, extractVars, selVars, processorVars>>

\* chrome.tabs.sendMessage of a click handler settles.  Activation: the
\* answer of the content script sets the badge to ON; a rejection clears the
\* flag (after one retry in the retrying version).  Deactivation: the answer
\* clears the badge and the flag; a rejection is only logged.
SendMessageSettles ==
  /\ \E c \in SuspendedClicks, ok \in BOOLEAN :
       /\ clickCalls[c].pc \in {"sendMessage", "retryMessage"}
       /\ IF clickCalls[c].kind = "activate"
          THEN IF ok
               THEN /\ badgeText' = "ON"
                    /\ contentActive' = TRUE
                    /\ clickCalls' = [clickCalls EXCEPT ![c].pc = "done"]
                    /\ UNCHANGED swIsSelectionModeActive
               ELSE IF retriesActivation /\ clickCalls[c].pc = "sendMessage"
                    THEN /\ clickCalls' = [clickCalls EXCEPT ![c].pc = "wait500"]
                         /\ UNCHANGED <<swIsSelectionModeActive, badgeText, contentActive>>
                    ELSE /\ clickCalls' = [clickCalls EXCEPT ![c].pc = "done"]
                         /\ swIsSelectionModeActive' = FALSE
                         /\ UNCHANGED <<badgeText, contentActive>>
          ELSE /\ clickCalls' = [clickCalls EXCEPT ![c].pc = "done"]
               /\ IF ok
                  THEN /\ badgeText' = ""
                       /\ swIsSelectionModeActive' = FALSE
                       /\ contentActive' = FALSE
                  ELSE UNCHANGED <<swIsSelectionModeActive, badgeText, contentActive>>
  /\ UNCHANGED <<retriesActivation, toWorker, received>>
  /\ UNCHANGED <<pageVars, envVars, adapterVars, extractVars, selVars, processorVars>>

\* the content script, in selection mode, sends a message: cancelSelection
\* on Escape (it leaves selection mode), or the result of a committed
\* selection (it stays in selection mode)
ContentSends ==
  /\ contentActive
  /\ Len(toWorker) + Len(received) < MaxMessages
  /\ \E a \in ContentActions :
       /\ toWorker' = Append(toWorker, a)
       /\ contentActive' = (a # "cancelSelection")
  /\ UNCHANGED <<swIsSelectionModeActive, badgeText, clickCalls, retriesActivation, received>>
  /\ UNCHANGED <<pageVars, envVars, adapterVars, extractVars, selVars, processorVars>>

\* the worker's message listener handles a message: handleSelectionCancel,
\* or showExtractionPopup up to its first await; both clear the flag and
\* the badge
OnMessage ==
  /\ toWorker # <<>>
  /\ swIsSelectionModeActive' = FALSE
  /\ badgeText' = ""
  /\ received' = Append(received, Head(toWorker))
  /\ toWorker' = Tail(toWorker)
  /\ UNCHANGED <<clickCalls, retriesActivation, contentActive>>
  /\ UNCHANGED <<pageVars, envVars, adapterVars, extractVars, selVars, processorVars>>

InitBadge ==
  /\ NoExtraction
  /\ ProcessorInit
  /\ ocrDefined = FALSE
  /\ tesseractLoaded = FALSE
  /\ isInitialized = FALSE
  /\ tesseract = NULL
  /\ currentLanguage = DefaultLanguage
  /\ ocrLanguage = NULL
  /\ swIsSelectionModeActive = FALSE
  /\ badgeText = ""
  /\ clickCalls = <<>>
  /\ retriesActivation \in BOOLEAN
  /\ contentActive = FALSE
  /\ toWorker = <<>>
  /\ received = <<>>

NextBadge ==
  \/ IconClicked
  \/ ExecuteScriptSettles
  \/ DelayElapses
  \/ SendMessageSettles
  \/ ContentSends
  \/ OnMessage

SpecBadge == InitBadge /\ [][NextBadge]_vars

(***************************************************************************)
(* Properties.                                                             *)
(***************************************************************************)
\* the recognitions the call made, in order, and their sources
RecognizeSteps == SelectSeq(trace, LAMBDA t : t.step = "recognize")
HasText(raw) == raw.kind = "data" /\ Trim(raw.text) # <<>>
Done == pc = "done"
Srcs(entries) == [j \in 1..Len(entries) |-> entries[j].src]
\* a text as it can appear inside combinedText: trimmed, long runs replaced
Normalized(text) == ReplaceNewlineRuns(Trim(text), 4, 3)
\* the texts of the successful, non-empty recognitions, in processing order
SuccessfulTexts ==
  LET good == SelectSeq(RecognizeSteps, LAMBDA t : HasText(t.raw))
  IN [j \in 1..Len(good) |-> good[j].raw.text]
StepFailed(name) == \E j \in 1..Len(trace) : trace[j].step = name /\ ~trace[j].ok

\* C1: a pointer-up that ends a drag whose rectangle is less than 5 px wide
\* or less than 5 px high starts no extraction (no call, no loading
\* indicator, no message) and removes the overlay.
C1_SmallSelectionIsDiscarded ==
  [][ ( /\ HandleMouseUp
        /\ isSelectionModeActive /\ isSelecting /\ selectionBox # NoBox
        /\ (BoxRect(selectionBox).width < 5 \/ BoxRect(selectionBox).height < 5) )
      => ( /\ extractCalls' = extractCalls
           /\ inFlight' = inFlight
           /\ sent' = sent
           /\ loadingIndicator' = loadingIndicator
           /\ selectionOverlay' = NULL ) ]_vars

\* C1 witness: the last pointer-up read a rectangle 6 px wide and under 5 px
\* high, in selection mode, and the overlay is gone with no extraction made.
C1_Witness ==
  /\ isSelectionModeActive /\ ~isSelecting
  /\ lastRect.width = 6 /\ lastRect.height < 5 /\ lastRect.height >= 0
  /\ selectionOverlay = NULL
  /\ extractCalls = 0 /\ sent = <<>>

\* C2: the call never rejects, a finished call has resolved, and when every
\* sub-step it ran failed its errors list is not empty.
C2_ExtractAlwaysResolves ==
  /\ outcome # "rejected"
  /\ Done => outcome = "resolved"
  /\ (Done /\ trace # <<>> /\ \A j \in 1..Len(trace) : ~trace[j].ok)
       => results.errors # <<>>

\* C2 witness: a finished call whose only sub-step, the script load, failed.
C2_Witness ==
  /\ Done /\ outcome = "resolved"
  /\ Len(trace) = 1 /\ trace[1].step = "loadOCRScript" /\ ~trace[1].ok
  /\ results.errors # <<>>

\* C3: when the recognition of entry n fails, the loop still processes every
\* entry; the entries before and after n are in images at their positions,
\* and their non-empty texts are in combinedText.
C3_FailureDoesNotStopProcessing ==
  Done =>
    \A n \in 1..Len(RecognizeSteps) :
      ~RecognizeSteps[n].ok =>
        /\ Len(RecognizeSteps) = Len(imageDataArray)
        /\ Len(results.images) = Len(imageDataArray)
        /\ \A m \in {n - 1, n + 1} \cap (1..Len(imageDataArray)) :
             /\ results.images[m].src = SrcOf(imageDataArray[m])
             /\ HasText(RecognizeSteps[m].raw) =>
                  /\ results.images[m].text = RecognizeSteps[m].raw.text
                  /\ Includes(results.combinedText, Normalized(RecognizeSteps[m].raw.text))

\* C3 witness: three recognitions, the second failed, the first and third
\* returned text, and both texts are in images.
C3_Witness ==
  /\ Done /\ Len(RecognizeSteps) = 3
  /\ ~RecognizeSteps[2].ok
  /\ HasText(RecognizeSteps[1].raw) /\ HasText(RecognizeSteps[3].raw)
  /\ results.images[1].text # <<>> /\ results.images[3].text # <<>>

\* C4: for a page and rectangle with no candidate image, the call finishes at
\* once with images empty and has run no script load, no initialization and
\* no recognition.
C4_NoImagesNoOCR ==
  (pc # "start" /\ DetectImagesInSelection(dom, selectionData) = <<>>) =>
    /\ Done
    /\ results.images = <<>>
    /\ trace = <<>>

\* C4 witness: a finished call on a page whose only image overlaps the
\* rectangle by a sliver, so that no candidate is detected.
C4_Witness ==
  /\ Done /\ Len(dom.imgs) = 1 /\ dom.els = <<>>
  /\ DetectImagesInSelection(dom, selectionData) = <<>>
  /\ results.selectableText # <<>>

\* C5: combinedText is selectableText (if not empty) followed by the
\* successful, non-empty OCR texts in processing order, joined by blank
\* lines, runs of 4 or more newlines replaced by 3, the whole trimmed.
C5_CombinedTextFormula ==
  Done =>
    results.combinedText =
      Trim(ReplaceNewlineRuns(
        Join((IF results.selectableText # <<>> THEN <<results.selectableText>> ELSE <<>>)
               \o SuccessfulTexts, <<NL, NL>>), 4, 3))

\* C6: combinedText never holds 4 or more consecutive newlines.
C6_NoFourNewlines == LongestNewlineRun(results.combinedText) < 4

\* C6 witness: a finished call whose selectable text holds a run of 4
\* newlines and whose combinedText holds a run of 3.
C6_Witness ==
  /\ Done
  /\ LongestNewlineRun(results.selectableText) >= 4
  /\ LongestNewlineRun(results.combinedText) = 3

\* C7: when the script load or the initialization failed, the failure is in
\* errors and combinedText contains selectableText (as step 3 writes it:
\* trimmed, long newline runs replaced).
C7_EngineFailureKeepsSelectableText ==
  (Done /\ (StepFailed("loadOCRScript") \/ StepFailed("initialize"))) =>
    /\ results.errors # <<>>
    /\ Includes(results.combinedText, Normalized(results.selectableText))

\* C8: when OCR ran, images holds one entry per candidate in discovery order,
\* then one for the whole-rectangle capture; a candidate that could not be
\* loaded has a failure entry in images and an entry in errors.
C8_OneEntryPerCandidate ==
  (Done /\ \E j \in 1..Len(trace) : trace[j].step = "capture") =>
    /\ Srcs(results.images) = Srcs(ocrCandidates) \o << <<"selection-area", 0>> >>
    /\ \A j \in 1..Len(trace) :
         (trace[j].step = "getImageData" /\ ~trace[j].ok) =>
           /\ \E m \in 1..Len(results.images) :
                results.images[m].src = trace[j].src /\ results.images[m].error # ""
           /\ \E m \in 1..Len(results.errors) : results.errors[m].src = trace[j].src

\* the 1-based position of a source in the discovery order
DiscoveryIndex(src) == CHOOSE m \in 1..Len(ocrCandidates) : ocrCandidates[m].src = src

\* C9: an error entry of a failed recognition carries the candidate's 1-based
\* position in discovery order; combinedText has the texts of the other
\* successful sources.
C9_ErrorCarriesDiscoveryIndex ==
  Done =>
    /\ \A m \in 1..Len(results.errors) :
         (results.errors[m].type = "ocr_failure" /\ results.errors[m].src[1] # "selection-area")
           => results.errors[m].imageIndex = DiscoveryIndex(results.errors[m].src)
    /\ \A n \in 1..Len(RecognizeSteps) :
         HasText(RecognizeSteps[n].raw) =>
           Includes(results.combinedText, Normalized(RecognizeSteps[n].raw.text))

\* the scenario of C10: one candidate image, no selectable text, and the
\* recognition of that image returned "ABC" with confidence 92
ABC == <<"A", "B", "C">>
OneImageABC ==
  /\ Done
  /\ Len(detectedImages) = 1
  /\ results.selectableText = <<>>
  /\ \E n \in 1..Len(RecognizeSteps) :
       /\ RecognizeSteps[n].src = detectedImages[1].src
       /\ RecognizeSteps[n].raw = [kind |-> "data", text |-> ABC, confidence |-> 92]

C11_HelloWorld ==
  (dom = HelloPage /\ selectionData = HelloSelection /\ Done) =>
    /\ results.selectableText = HelloWorld
    /\ results.images = <<>>
    /\ results.combinedText = HelloWorld
    /\ results.errors = <<>>

\* C11 witness: the call on that page is finished, the text node and both
\* elements under the centre point were read, and the text is there once.
C11_Witness ==
  /\ dom = HelloPage /\ Done
  /\ Len(ElementsFromPoint(dom, selectionData)) = 2
  /\ results.selectableText = HelloWorld

\* C12: a call with a rectangle under 5 px wide or high rejects and runs no
\* geometry or OCR step.
C12_MalformedRectangleRejects ==
  (pc # "start" /\ (selectionData.viewportWidth < 5 \/ selectionData.viewportHeight < 5)) =>
    /\ outcome = "rejected"
    /\ results.selectableText = <<>>
    /\ detectedImages = <<>>
    /\ trace = <<>>

\* C13: a second call on the same page and rectangle, answered by the world
\* as the first was, returns the combinedText of the first, whatever the
\* first call did to the OCR processor.
C13_SecondCallSameText ==
  (firstCall.made /\ Done) => results.combinedText = firstCall.combinedText

\* C13 witness: the second call is finished; the first one found the OCR
\* processor not initialized and with another language and left it
\* initialized; both returned the text recognized in the image.
C13_Witness ==
  /\ firstCall.made /\ Done
  /\ ~firstCall.isInitialized /\ isInitialized
  /\ firstCall.currentLanguage # currentLanguage
  /\ Includes(results.combinedText, ABC)
  /\ Includes(firstCall.combinedText, ABC)

\* a message that handleSelectionComplete sends before it ends
CompletionActions == {"textExtractionComplete", "extractionError", "selectionComplete"}

\* C14: when handleSelectionComplete ends (extraction resolved, extraction
\* threw, or extractor missing), the loading indicator and the overlay are
\* removed.
C14_CompleteAlwaysCleansUp ==
  [][ ( /\ Len(sent') = Len(sent) + 1
        /\ sent'[Len(sent')].action \in CompletionActions )
      => ( /\ loadingIndicator' = NULL
           /\ selectionOverlay' = NULL
           /\ selectionBox' = NoBox ) ]_vars

\* C14 witness: an extraction threw, the error was sent, and the indicator
\* and the overlay are gone.
C14_Witness ==
  /\ lastEvent.type = "rejected"
  /\ sent # <<>> /\ sent[Len(sent)].action = "extractionError"
  /\ loadingIndicator = NULL /\ selectionOverlay = NULL

\* C15: a step that ends a gesture (an extraction settles, the extractor is
\* missing, the rectangle is too small, Escape) leaves selection mode
\* inactive, the listeners removed and the cursor restored, and an activation
\* message always leaves an overlay installed.
C15_GestureEndReturnsToIdle ==
  /\ [][ ( \/ ExtractionSettles
           \/ /\ HandleMouseUp
              /\ isSelectionModeActive /\ isSelecting /\ selectionBox # NoBox
              /\ \/ ~HasMeaningfulSize(SelectionDataOf(BoxRect(selectionBox)))
                 \/ ~textExtractorAvailable
           \/ /\ HandleKeyDown
              /\ isSelectionModeActive /\ lastEvent'.key = "Escape" )
         => ( /\ ~isSelectionModeActive'
              /\ ~listeners'
              /\ cursor' = "" ) ]_vars
  /\ [][ ActivateSelectionMode => (isSelectionModeActive' /\ selectionOverlay' # NULL) ]_vars

\* the notice of a cancellation
CancelNotice == [action |-> "cancelSelection", selection |-> NoSelection]

\* C16: Escape in selection mode removes the overlay, clears the drag flag,
\* restores the cursor, removes the listeners and sends exactly one
\* cancelSelection.
C16_EscapeCancels ==
  [][ ( /\ HandleKeyDown
        /\ isSelectionModeActive
        /\ lastEvent'.type = "keydown" /\ lastEvent'.key = "Escape" )
      => ( /\ selectionOverlay' = NULL /\ selectionBox' = NoBox
           /\ ~isSelecting'
           /\ cursor' = ""
           /\ ~listeners'
           /\ ~isSelectionModeActive'
           /\ sent' = Append(sent, CancelNotice) ) ]_vars

\* C16 witness: Escape was the last event, pressed during the drag of the
\* only session (a mousedown set the anchor, no mouseup read a rectangle);
\* one cancelSelection was sent and the listeners are removed.
C16_Witness ==
  /\ lastEvent.type = "keydown" /\ lastEvent.key = "Escape" /\ lastEvent.prevented
  /\ sent = <<CancelNotice>>
  /\ ~listeners /\ ~isSelecting /\ selectionOverlay = NULL /\ cursor = ""
  /\ activations = 1 /\ startX = 4 /\ lastRect = NoSelection

\* C17: after a click on the armed page without a drag (mousedown, mouseup,
\* click) selection mode is inactive, the overlay is removed and a
\* cancelSelection has been sent.
C17_ClickOnLayerCancels ==
  lastEvent.gesture = 3 =>
    /\ ~isSelectionModeActive
    /\ selectionOverlay = NULL
    /\ sent # <<>> /\ sent[Len(sent)] = CancelNotice

\* C18: an activation message received in selection mode changes neither the
\* drag flag, the anchor, the overlay, the box, the listeners nor the cursor.
C18_ReentrantActivationIsNoop ==
  [][ (ActivateSelectionMode /\ isSelectionModeActive)
      => UNCHANGED <<isSelectionModeActive, isSelecting, startX, startY,
                     selectionOverlay, selectionBox, listeners, cursor>> ]_vars

\* C18 witness: the last thing handled was an activation message, and the
\* drag it arrived in is still there with its box of 6 x 5 pixels.
C18_Witness ==
  /\ lastEvent.type = "activate"
  /\ isSelectionModeActive /\ isSelecting
  /\ selectionBox.display = "block" /\ selectionBox.width = 6 /\ selectionBox.height = 5

C20_FiveByFiveCommits ==
  [][ ( /\ HandleMouseUp
        /\ isSelectionModeActive /\ isSelecting /\ selectionBox # NoBox
        /\ BoxRect(selectionBox).width >= 5
        /\ BoxRect(selectionBox).height >= 5 )
      => ( \/ inFlight' = Append(inFlight, SelectionDataOf(BoxRect(selectionBox)))
           \/ sent' = Append(sent, [action |-> "selectionComplete",
                                    selection |-> SelectionDataOf(BoxRect(selectionBox))]) ) ]_vars

\* C21: when the awaited extraction rejects, handleSelectionComplete sends
\* exactly one extractionError carrying the rectangle of that call, the call
\* leaves the in-flight list and no extraction is started again, no overlay
\* is installed and the activation state is left as it was.
C21_RejectionSendsOneError ==
  [][ lastEvent'.type = "rejected"
      => ( /\ Len(sent') = Len(sent) + 1
           /\ sent'[Len(sent')].action = "extractionError"
           /\ \E n \in 1..Len(inFlight) :
                /\ sent'[Len(sent')].selection = inFlight[n]
                /\ inFlight' = [j \in 1..(Len(inFlight) - 1) |->
                                  IF j < n THEN inFlight[j] ELSE inFlight[j + 1]]
           /\ \A j \in 1..Len(sent) : sent'[j] = sent[j]
           /\ extractCalls' = extractCalls
           /\ selectionOverlay' = NULL /\ selectionBox' = NoBox /\ loadingIndicator' = NULL
           /\ UNCHANGED <<isSelectionModeActive, isSelecting, listeners, activations>> ) ]_vars

\* C21 witness: the one extraction of a 6 x 6 rectangle rejected; one
\* extractionError with that rectangle is the only message, and nothing is in
\* flight.
C21_Witness ==
  /\ lastEvent.type = "rejected"
  /\ extractCalls = 1 /\ inFlight = <<>>
  /\ Len(sent) = 1 /\ sent[1].action = "extractionError"
  /\ sent[1].selection = lastRect /\ lastRect.width = 6 /\ lastRect.height = 6

\* C23: when the engine completes with whitespace-only text, extractText
\* returns text '' with a warning, and the step adds one images entry with
\* empty text and a warning and leaves errors as they were.
C23_EmptyTextIsSuccess ==
  [][ ( /\ Len(trace') = Len(trace) + 1
        /\ trace'[Len(trace')].step = "recognize"
        /\ trace'[Len(trace')].raw.kind = "data"
        /\ Trim(trace'[Len(trace')].raw.text) = <<>> )
      => ( /\ trace'[Len(trace')].ok
           /\ ExtractText(trace'[Len(trace')].raw).text = <<>>
           /\ ExtractText(trace'[Len(trace')].raw).warning = "No text found in image"
           /\ Len(results'.images) = Len(results.images) + 1
           /\ \A j \in 1..Len(results.images) : results'.images[j] = results.images[j]
           /\ results'.images[Len(results'.images)].text = <<>>
           /\ results'.images[Len(results'.images)].warning = "No text detected in image"
           /\ results'.images[Len(results'.images)].error = ""
           /\ results'.errors = results.errors ) ]_vars

\* C23 witness: a call ended whose one image was recognized as a single
\* space; its images entry has a warning and there is no error.
C23_Witness ==
  /\ Done
  /\ Len(RecognizeSteps) = 1
  /\ RecognizeSteps[1].raw.kind = "data" /\ Trim(RecognizeSteps[1].raw.text) = <<>>
  /\ Len(results.images) = 1 /\ results.images[1].warning = "No text detected in image"
  /\ results.errors = <<>>

\* C30: every candidate of detectImagesInSelection, <img> or element with a
\* background image, meets the selection rectangle in more than 10 pixels of
\* width and of height.
C30_CandidatesExceedTenPixels ==
  \A j \in 1..Len(detectedImages) :
    /\ detectedImages[j].intersection.width > 10
    /\ detectedImages[j].intersection.height > 10

\* the result or the error a settled call gives its caller
ResultOf(call) == ExtractText(call.raw)

\* C22: every extractText call that started its engine settles; a timer that
\* fires on a pending call fails it with the timeout message whatever the
\* engine does later, and a settled call keeps its result when its timer
\* fires afterwards.
C22_RecognizeSettles ==
  /\ \A n \in 1..MaxRecognitions :
       (Len(recogs) >= n) ~> (Len(recogs) >= n /\ ~Pending(recogs[n]))
  /\ [][ \A n \in 1..Len(recogs) :
           /\ ( Pending(recogs[n]) /\ recogs[n].timer = "pending"
                /\ recogs'[n].timer = "fired" )
              => ( /\ recogs'[n].status = "failed"
                   /\ ResultOf(recogs'[n]).message = TimeoutMessage )
           /\ ~Pending(recogs[n])
              => ( /\ recogs'[n].status = recogs[n].status
                   /\ recogs'[n].raw = recogs[n].raw ) ]_vars

\* C22 witness: the engine of the first call returned ABC before the timer,
\* the timer has fired since, and the call still has its result.
C22_Witness ==
  /\ Len(recogs) >= 1
  /\ recogs[1].status = "returned" /\ recogs[1].timer = "fired"
  /\ ResultOf(recogs[1]).text = ABC

\* C24: at most one engine pass is running at any time.
C24_OneEnginePassAtATime ==
  Cardinality({n \in 1..Len(recogs) : recogs[n].engine = "running"}) <= 1

\* calls a and b of initialize overlapped: a was in flight when b was made
Overlapped(a, b) == a \in initCalls[b].during

\* C25: of two overlapping initialize calls for the same language made with
\* Tesseract not loaded, at most one appends the script element and at most
\* one schedules a pre-warm.
C25_OverlappingInitializeShareOneLoad ==
  \A a, b \in 1..Len(initCalls) :
    ( /\ Overlapped(a, b)
      /\ initCalls[b].unloaded
      /\ initCalls[a].lang # NULL
      /\ initCalls[a].lang = initCalls[b].lang )
    => ( /\ ~(initCalls[a].injected /\ initCalls[b].injected)
         /\ ~(initCalls[a].timer /\ initCalls[b].timer) )

\* C26: initialize(L) on a processor that is initialized with language L
\* returns at once and changes nothing: no script element, no read of the
\* stored preference, no pre-warm timer, processor fields as they were.
C26_InitializeAgainIsNoop ==
  [][ ( /\ Len(initCalls') = Len(initCalls) + 1
        /\ IsReady(isInitialized, tesseract)
        /\ initCalls'[Len(initCalls')].arg = currentLanguage )
      => ( /\ initCalls'[Len(initCalls')].pc = "done"
           /\ ~initCalls'[Len(initCalls')].injected
           /\ UNCHANGED <<adapterVars, ocrLanguage, preWarmTimers>> ) ]_vars

\* C27: for every language at most one worker is alive.
C27_OneWorkerPerLanguage ==
  \A l \in Languages :
    Cardinality({w \in 1..Len(workers) :
                   workers[w].lang = l /\ workers[w].state = "alive"}) <= 1

\* C28: every worker that was created is terminated at some later time.
C28_EveryWorkerIsTerminated ==
  \A w \in 1..MaxInits :
    (Len(workers) >= w /\ workers[w].state = "alive")
      ~> (Len(workers) >= w /\ workers[w].state = "terminated")

\* C29: a recognition started after setLanguage(L, save) returned, and
\* before the next setLanguage call, runs with L, whether the preference was
\* stored, not stored, or its write failed.
C29_RecognitionUsesSetLanguage ==
  \A n \in 1..Len(recogs) :
    (recogs[n].engine # "none" /\ recogs[n].after # NULL)
      => recogs[n].lang = recogs[n].after

\* the rectangles share an area or a stretch of edge of positive size
InteriorsMeet(r, s) ==
  /\ r.left < Right(s) /\ s.left < Right(r)
  /\ r.top < Bottom(s) /\ s.top < Bottom(r)

\* C31: the list of pieces assembled by extractSelectableText holds no
\* string twice.
C31_PiecesAreDistinct ==
  Done =>
    LET pieces == TextElements(dom, selectionData)
    IN \A j, m \in 1..Len(pieces) : j # m => pieces[j] # pieces[m]

\* C32: selectableText holds no carriage return, no run of more than two
\* newlines, and no leading or trailing whitespace.
C32_SelectableTextIsNormalized ==
  Done =>
    /\ \A j \in 1..Len(results.selectableText) : results.selectableText[j] # CR
    /\ LongestNewlineRun(results.selectableText) <= 2
    /\ Trim(results.selectableText) = results.selectableText

\* C33: the overlap test accepts a text node exactly when its rectangle and
\* the selection rectangle meet in more than an edge or a corner.
C33_TouchingIsNotOverlapping ==
  Done =>
    \A j \in 1..Len(dom.textNodes) :
      Overlaps(dom.textNodes[j].rect, SelectionRect(selectionData))
        <=> InteriorsMeet(dom.textNodes[j].rect, SelectionRect(selectionData))

\* C34: a key pressed while a committed selection awaits its extraction
\* sends nothing: no cancelSelection follows a commit.
C34_NoCancelAfterCommit ==
  [][ (inFlight # <<>> /\ lastEvent'.type = "keydown") => sent' = sent ]_vars

\* C35: a call fails with the timeout message only when its 30 s timer
\* settled the race, and a fault of the image source is reported with the
\* load message, the dimensions message or its own message.
C35_FailureClassMatchesCause ==
  \A n \in 1..Len(recogs) :
    /\ (recogs[n].status = "failed" /\ ResultOf(recogs[n]).message = TimeoutMessage)
         => recogs[n].raw.kind = "hang"
    /\ recogs[n].raw.kind = "invalid"
         => ResultOf(recogs[n]).message \in {LoadMessage, DimensionsMessage, AsThrown}

\* C36: at most one extraction is in flight, and no drag is in progress
\* while one is.
C36_OneExtractionInFlight ==
  /\ Len(inFlight) <= 1
  /\ inFlight # <<>> => ~isSelecting

\* C37: while an extraction is in flight the loading indicator is present.
C37_IndicatorWhileInFlight ==
  inFlight # <<>> => loadingIndicator # NULL

\* the messages of a sequence that carry a result to the service worker
ResultMessages(msgs) ==
  SelectSeq(msgs, LAMBDA m : m.action \in {"textExtractionComplete", "selectionComplete",
                                           "extractionError"})

\* the messages of a sequence sent by a resumed handleSelectionComplete
SettledMessages(msgs) ==
  SelectSeq(msgs, LAMBDA m : m.action \in {"textExtractionComplete", "extractionError"})

\* a sequence without its n-th element
Without(seq, n) ==
  [j \in 1..(Len(seq) - 1) |-> IF j < n THEN seq[j] ELSE seq[j + 1]]

\* the pointer-up handled in this step commits a rectangle
Commits ==
  /\ listeners /\ isSelectionModeActive /\ isSelecting /\ selectionBox # NoBox
  /\ lastEvent'.type = "mouseup"
  /\ HasMeaningfulSize(SelectionDataOf(BoxRect(selectionBox)))

\* C38 (steps): a commit sends selectionComplete at once when the extractor
\* is unavailable and otherwise sends nothing and puts its rectangle in
\* flight; a result message for a call in flight is sent exactly when that
\* call settles, one message per call, carrying that call's rectangle; no
\* other step sends a result message or changes what is in flight.
C38_StepSendsAtMostItsResult ==
  /\ Commits /\ ~textExtractorAvailable
       => /\ ResultMessages(sent') =
               Append(ResultMessages(sent),
                      [action |-> "selectionComplete", selection |-> lastRect'])
          /\ inFlight' = inFlight
  /\ Commits /\ textExtractorAvailable
       => /\ ResultMessages(sent') = ResultMessages(sent)
          /\ inFlight' = Append(inFlight, lastRect')
  /\ ~Commits
       => \/ /\ inFlight' = inFlight
             /\ ResultMessages(sent') = ResultMessages(sent)
          \/ \E n \in 1..Len(inFlight), a \in {"textExtractionComplete", "extractionError"} :
               /\ inFlight' = Without(inFlight, n)
               /\ ResultMessages(sent') =
                    Append(ResultMessages(sent), [action |-> a, selection |-> inFlight[n]])

\* C38: every committed selection leads to exactly one result message, sent
\* when its extraction settled: textExtractionComplete, selectionComplete
\* (extractor unavailable) or extractionError; never none and never two.
C38_OneResultPerCommit ==
  /\ [][C38_StepSendsAtMostItsResult]_vars
  /\ []<>(Len(SettledMessages(sent)) = extractCalls)

\* C38 witness: two rectangles were committed, both extractions settled, one
\* resolved and one rejected, and the result messages are exactly those two.
C38_Witness ==
  /\ extractCalls = 2 /\ inFlight = <<>>
  /\ Len(ResultMessages(sent)) = 2
  /\ \E a, b \in 1..2 : /\ ResultMessages(sent)[a].action = "textExtractionComplete"
                         /\ ResultMessages(sent)[b].action = "extractionError"

\* C39: the badge shows ON only while the service worker's
\* isSelectionModeActive flag is true; stated for the states in which no
\* icon-click handler is suspended at an await.
C39_BadgeOnOnlyWhileActive ==
  SuspendedClicks = {} => (badgeText = "ON" => swIsSelectionModeActive)

====
